---- MODULE Spec2Model ----
(***************************************************************************)
(* Model of diffyscan:                                                     *)
(*   - the EVM bytecode decoder and comparator                             *)
(*     (src/diffyscan/utils/binary_verifier.py: parse, to_match) with the  *)
(*     opcode table (src/diffyscan/utils/constants.py);                    *)
(*   - get_explorer_hostname (src/diffyscan/utils/explorer.py);            *)
(*   - resolve_dep (src/diffyscan/utils/github.py);                        *)
(*   - the constructor argument encoder (src/diffyscan/utils/encoder.py);  *)
(*   - main and process_config (src/diffyscan/diffyscan.py) with the       *)
(*     local node (src/diffyscan/utils/hardhat.py) and the exception       *)
(*     policy (src/diffyscan/utils/custom_exceptions.py);                  *)
(*   - load_config (src/diffyscan/utils/common.py);                        *)
(*   - get_calldata (src/diffyscan/utils/calldata.py);                     *)
(*   - run_bytecode_diff and run_source_diff (src/diffyscan/diffyscan.py); *)
(*   - get_file_from_github_recursive (src/diffyscan/utils/github.py).     *)
(*                                                                         *)
(* A Python str is a sequence of one-character strings, a bytes object is  *)
(* a sequence of integers 0..255, a dict is a function, None is "None".    *)
(* Each part has its own specification; the variables of the other parts   *)
(* stay at their idle values.                                              *)
(***************************************************************************)
EXTENDS Integers, Sequences, FiniteSets, TLC

VARIABLES
    bytecode,             \* parse(): the argument of a stand-alone call
    instructions,         \* parse(): the list it returned
    parse_pc,             \* parse(): "idle" | "called" | "loop" | "returned"
    parse_i,              \* parse(): local i, the read position in buffer
    actualBytecode,       \* to_match(): argument
    expectedBytecode,     \* to_match(): argument
    immutables,           \* to_match(): argument, dict offset -> length
    actualInstructions,   \* to_match(): local
    expectedInstructions, \* to_match(): local
    i,                    \* to_match(): index of the running for loop
    differences,          \* to_match(): local list
    checkpoints,          \* to_match(): local set
    checkpointsArray,     \* to_match(): local sorted list
    rendered,             \* to_match(): what the render loop printed, in order
    log,                  \* to_match(): the verdict line handed to the logger
    outcome,              \* to_match(): how the call ended
    pc                    \* to_match(): position in the function body

parse_vars == <<bytecode, instructions, parse_pc, parse_i>>

match_vars == <<actualBytecode, expectedBytecode, immutables, actualInstructions,
                expectedInstructions, i, differences, checkpoints,
                checkpointsArray, rendered, log, outcome, pc>>

VARIABLES
    host_config,          \* get_explorer_hostname(): argument config
    host_env,             \* the process environment (os.environ)
    host_result,          \* get_explorer_hostname(): returned value
    host_pc,              \* get_explorer_hostname(): "idle" | "called" | "returned"
    dep_path,             \* resolve_dep(): argument path_to_file
    dep_config,           \* resolve_dep(): config["dependencies"], in insertion order
    dep_result,           \* resolve_dep(): returned tuple
    dep_pc,               \* resolve_dep(): "idle" | "called" | "returned"
    enc_abi,              \* encode_constructor_arguments(): constructor_abi
    enc_args,             \* encode_constructor_arguments(): constructor_config_args
    enc_result,           \* encode_constructor_arguments(): returned string or error
    enc_pc,               \* encode_constructor_arguments(): "idle" | "called" | "returned"
    enable_binary_comparison, \* main(): not args.skip_binary_comparison
    config_paths,         \* main(): number of config files found
    config_index,         \* main(): number of process_config calls made
    loaded_config,        \* process_config(): config, as load_config returned it
    raise_exception,      \* ExceptionHandler.raise_exception
    sub_process,          \* hardhat.sub_process: "None" | "running" | "exited"
    contract_index,       \* process_config(): contracts visited by the for loop
    source_stats,         \* process_config(): source_stats
    bytecode_stats,       \* process_config(): bytecode_stats
    all_results,          \* main(): all_results
    allow_source_diff,    \* main(): args.allow_source_diff, once read
    allow_bytecode_diff,  \* main(): args.allow_bytecode_diff, once read
    exit_code,            \* status passed to sys.exit, "None" before
    main_pc,              \* position of main() and of the current process_config()
    events,               \* history: what happened to each contract visited
    start_attempted,      \* history: hardhat.start was called for this config
    stop_calls,           \* history: the hardhat.stop calls made for this config
    exit_cause,           \* history: how the try block of process_config ended
    seen_diffs,           \* history: differences met by the run so far
    policies              \* history: raise_exception as each process_config call set it

host_vars == <<host_config, host_env, host_result, host_pc>>

dep_vars == <<dep_path, dep_config, dep_result, dep_pc>>

enc_vars == <<enc_abi, enc_args, enc_result, enc_pc>>

batch_vars == <<enable_binary_comparison, config_paths, config_index,
                loaded_config, raise_exception, sub_process, contract_index,
                source_stats, bytecode_stats, all_results, allow_source_diff,
                allow_bytecode_diff, exit_code, main_pc>>

history_vars == <<events, start_attempted, stop_calls, exit_cause, seen_diffs, policies>>

VARIABLES
    cfg_path,             \* load_config(): argument path
    cfg_file,             \* load_config(): the document in the file at path
    cfg_result,           \* load_config(): returned config or raised error
    cfg_pc                \* load_config(): "idle" | "called" | "returned"

cfg_vars == <<cfg_path, cfg_file, cfg_result, cfg_pc>>

VARIABLES
    cd_address,           \* get_calldata(): contract_address_from_config
    cd_abi,               \* get_calldata(): target_compiled_contract["abi"]
    cd_config,            \* get_calldata(): binary_config
    cd_constructor_abi,   \* get_calldata(): local constructor_abi
    cd_result,            \* get_calldata(): returned value or raised error
    cd_pc,                \* get_calldata(): "idle" | "called" | "check" | "returned"
    cd_consulted          \* history: binary_config has been read

cd_vars == <<cd_address, cd_abi, cd_config, cd_constructor_abi, cd_result, cd_pc,
             cd_consulted>>

VARIABLES
    bd_github,            \* run_bytecode_diff(): what GitHub has for each source path
    bd_missing,           \* run_bytecode_diff(): missing_sources
    bd_compiled,          \* run_bytecode_diff(): local_compiled_bytecode
    bd_remote,            \* run_bytecode_diff(): remote_deployed_bytecode
    bd_local,             \* run_bytecode_diff(): local_deployed_bytecode
    bd_result,            \* run_bytecode_diff(): returned value or raised error
    bd_pc,                \* run_bytecode_diff(): position in the function body
    bd_trace              \* history: the calls made so far, in order

bd_vars == <<bd_github, bd_missing, bd_compiled, bd_remote, bd_local, bd_result, bd_pc,
             bd_trace>>

VARIABLES
    sd_files,             \* run_source_diff(): source_files with what GitHub has for each
    sd_prettify,          \* run_source_diff(): argument prettify
    sd_index,             \* run_source_diff(): index of the running for loop
    sd_report,            \* run_source_diff(): local report
    sd_result,            \* run_source_diff(): returned statistics or raised error
    sd_pc                 \* run_source_diff(): "idle" | "loop" | "done"

sd_vars == <<sd_files, sd_prettify, sd_index, sd_report, sd_result, sd_pc>>

VARIABLES
    gh_dirs,              \* the repository at the commit: its directories
    gh_file_dirs,         \* the repository: the directories that hold the file
    gh_content,           \* the repository: the file's base64 content field
    gh_root,              \* get_file_from_github_recursive(): relative_root
    gh_stack,             \* _recursive_search(): the frames of the running calls
    gh_checked,           \* _recursive_search(): checked_dirs
    gh_ret,               \* _recursive_search(): value handed to the caller
    gh_result,            \* get_file_from_github_recursive(): returned value
    gh_pc,                \* get_file_from_github_recursive(): position
    gh_listed             \* history: the directory listings requested, in order

gh_vars == <<gh_dirs, gh_file_dirs, gh_content, gh_root, gh_stack, gh_checked, gh_ret,
             gh_result, gh_pc, gh_listed>>

last_vars == <<sd_vars, gh_vars>>

more_vars == <<cfg_vars, cd_vars, bd_vars, last_vars>>

other_vars == <<host_vars, dep_vars, enc_vars, batch_vars, history_vars, more_vars>>

vars == <<bytecode, instructions, parse_pc, parse_i, actualBytecode, expectedBytecode,
          immutables, actualInstructions, expectedInstructions, i, differences,
          checkpoints, checkpointsArray, rendered, log, outcome, pc, other_vars>>

None == "None"

\* the None of a value that is otherwise a str (a sequence of characters)
NoneName == <<"None">>

Min(a, b) == IF a <= b THEN a ELSE b

Max(a, b) == IF a >= b THEN a ELSE b

(***************************************************************************)
(* Opcode table and derived constants                                      *)
(***************************************************************************)
OpcodeItems == {
    <<0, "STOP">>, <<1, "ADD">>, <<2, "MUL">>, <<3, "SUB">>, <<4, "DIV">>,
    <<5, "SDIV">>, <<6, "MOD">>, <<7, "SMOD">>, <<8, "ADDMOD">>, <<9, "MULMOD">>,
    <<10, "EXP">>, <<11, "SIGNEXTEND">>, <<16, "LT">>, <<17, "GT">>, <<18, "SLT">>,
    <<19, "SGT">>, <<20, "EQ">>, <<21, "ISZERO">>, <<22, "AND">>, <<23, "OR">>,
    <<24, "XOR">>, <<25, "NOT">>, <<26, "BYTE">>, <<27, "SHL">>, <<28, "SHR">>,
    <<29, "SAR">>, <<32, "SHA3">>, <<48, "ADDRESS">>, <<49, "BALANCE">>, <<50, "ORIGIN">>,
    <<51, "CALLER">>, <<52, "CALLVALUE">>, <<53, "CALLDATALOAD">>, <<54, "CALLDATASIZE">>, <<55, "CALLDATACOPY">>,
    <<56, "CODESIZE">>, <<57, "CODECOPY">>, <<58, "GASPRICE">>, <<59, "EXTCODESIZE">>, <<60, "EXTCODECOPY">>,
    <<61, "RETURNDATASIZE">>, <<62, "RETURNDATACOPY">>, <<63, "EXTCODEHASH">>, <<64, "BLOCKHASH">>, <<65, "COINBASE">>,
    <<66, "TIMESTAMP">>, <<67, "NUMBER">>, <<68, "PREVRANDAO">>, <<69, "GASLIMIT">>, <<70, "CHAINID">>,
    <<71, "SELFBALANCE">>, <<72, "BASEFEE">>, <<80, "POP">>, <<81, "MLOAD">>, <<82, "MSTORE">>,
    <<83, "MSTORE8">>, <<84, "SLOAD">>, <<85, "SSTORE">>, <<86, "JUMP">>, <<87, "JUMPI">>,
    <<88, "PC">>, <<89, "MSIZE">>, <<90, "GAS">>, <<91, "JUMPDEST">>, <<95, "PUSH0">>,
    <<96, "PUSH1">>, <<97, "PUSH2">>, <<98, "PUSH3">>, <<99, "PUSH4">>, <<100, "PUSH5">>,
    <<101, "PUSH6">>, <<102, "PUSH7">>, <<103, "PUSH8">>, <<104, "PUSH9">>, <<105, "PUSH10">>,
    <<106, "PUSH11">>, <<107, "PUSH12">>, <<108, "PUSH13">>, <<109, "PUSH14">>, <<110, "PUSH15">>,
    <<111, "PUSH16">>, <<112, "PUSH17">>, <<113, "PUSH18">>, <<114, "PUSH19">>, <<115, "PUSH20">>,
    <<116, "PUSH21">>, <<117, "PUSH22">>, <<118, "PUSH23">>, <<119, "PUSH24">>, <<120, "PUSH25">>,
    <<121, "PUSH26">>, <<122, "PUSH27">>, <<123, "PUSH28">>, <<124, "PUSH29">>, <<125, "PUSH30">>,
    <<126, "PUSH31">>, <<127, "PUSH32">>, <<128, "DUP1">>, <<129, "DUP2">>, <<130, "DUP3">>,
    <<131, "DUP4">>, <<132, "DUP5">>, <<133, "DUP6">>, <<134, "DUP7">>, <<135, "DUP8">>,
    <<136, "DUP9">>, <<137, "DUP10">>, <<138, "DUP11">>, <<139, "DUP12">>, <<140, "DUP13">>,
    <<141, "DUP14">>, <<142, "DUP15">>, <<143, "DUP16">>, <<144, "SWAP1">>, <<145, "SWAP2">>,
    <<146, "SWAP3">>, <<147, "SWAP4">>, <<148, "SWAP5">>, <<149, "SWAP6">>, <<150, "SWAP7">>,
    <<151, "SWAP8">>, <<152, "SWAP9">>, <<153, "SWAP10">>, <<154, "SWAP11">>, <<155, "SWAP12">>,
    <<156, "SWAP13">>, <<157, "SWAP14">>, <<158, "SWAP15">>, <<159, "SWAP16">>, <<160, "LOG0">>,
    <<161, "LOG1">>, <<162, "LOG2">>, <<163, "LOG3">>, <<164, "LOG4">>, <<240, "CREATE">>,
    <<241, "CALL">>, <<242, "CALLCODE">>, <<243, "RETURN">>, <<244, "DELEGATECALL">>, <<245, "CREATE2">>,
    <<250, "STATICCALL">>, <<253, "REVERT">>, <<254, "INVALID">>, <<255, "SELFDESTRUCT">> }

OPCODES == [c \in {p[1] : p \in OpcodeItems} |-> (CHOOSE p \in OpcodeItems : p[1] = c)[2]]

\* keys[0] of the keys whose value equals `value` (the table is written in
\* ascending key order, so the first key is the least one), else None.
get_key_from_value(dictinary, value) ==
    LET keys == {k \in DOMAIN dictinary : dictinary[k] = value}
    IN  IF keys # {}
        THEN CHOOSE k \in keys : \A k2 \in keys : k <= k2
        ELSE None

PUSH0 == get_key_from_value(OPCODES, "PUSH0")

PUSH32 == get_key_from_value(OPCODES, "PUSH32")

\* OPCODES.get(opcode, 'INVALID')
OpcodeName(opcode) == IF opcode \in DOMAIN OPCODES THEN OPCODES[opcode] ELSE "INVALID"

(***************************************************************************)
(* Python built-ins used by the decoder                                    *)
(***************************************************************************)
HexDigits == <<"0", "1", "2", "3", "4", "5", "6", "7",
               "8", "9", "a", "b", "c", "d", "e", "f">>

UpperHexDigits == <<"0", "1", "2", "3", "4", "5", "6", "7",
                    "8", "9", "A", "B", "C", "D", "E", "F">>

\* value of one hexadecimal digit, either case
HexVal(c) ==
    CHOOSE v \in 0..15 : HexDigits[v + 1] = c \/ UpperHexDigits[v + 1] = c

\* bytes.fromhex(s) for a string of an even number of hex digits
bytes_fromhex(s) ==
    [k \in 1..(Len(s) \div 2) |-> 16 * HexVal(s[2 * k - 1]) + HexVal(s[2 * k])]

\* bytes.hex(): two lower-case digits per byte
bytes_hex(b) ==
    [k \in 1..(2 * Len(b)) |->
        IF k % 2 = 1 THEN HexDigits[(b[(k + 1) \div 2] \div 16) + 1]
                     ELSE HexDigits[(b[k \div 2] % 16) + 1]]

\* bytecode.startswith('0x')
startswith_0x(s) == Len(s) >= 2 /\ s[1] = "0" /\ s[2] = "x"

\* variant: the upper end of the slice is one short
SliceShort(seq, lo, hi) == SubSeq(seq, lo + 1, Min(hi, Len(seq)) - 1)

\* seq[lo:hi] for 0 <= lo, clamped to the end of seq as Python slices are
Slice(seq, lo, hi) == SubSeq(seq, lo + 1, Min(hi, Len(seq)))

(***************************************************************************)
(* parse(bytecode)                                                         *)
(***************************************************************************)
\* variant: the operand count is taken from PUSH1 instead of PUSH0
InstructionLengthFromPush1(opcode) ==
    1 + (IF 96 <= opcode /\ opcode <= 127 THEN opcode - 96 ELSE 0)

\* length = 1 + (opcode - 0x5f if 0x5f <= opcode <= 0x7f else 0)
InstructionLength(opcode) ==
    1 + (IF 95 <= opcode /\ opcode <= 127 THEN opcode - 95 ELSE 0)

\* variant: a span cut short by the end of the buffer is zero-padded
DecodeAtPadded(buffer, pos) ==
    LET opcode == buffer[pos + 1]
        length == 1 + (IF 95 <= opcode /\ opcode <= 127 THEN opcode - 95 ELSE 0)
        span == [k \in 1..length |->
                    IF pos + k <= Len(buffer) THEN buffer[pos + k] ELSE 0]
    IN  [start    |-> pos,
         length   |-> length,
         op       |-> [name |-> OpcodeName(opcode), code |-> opcode],
         bytecode |-> bytes_hex(span)]

\* the dict appended for the instruction that starts at buffer[pos]
DecodeAt(buffer, pos) ==
    LET opcode == buffer[pos + 1]
        length == InstructionLength(opcode)
    IN  [start    |-> pos,
         length   |-> length,
         op       |-> [name |-> OpcodeName(opcode), code |-> opcode],
         bytecode |-> bytes_hex(Slice(buffer, pos, pos + length))]

\* variant: the read position is not moved
NextPositionStay(pos, length) == pos

\* variant: the decoder steps one byte at a time
NextPositionByOne(pos, length) == pos + 1

\* i += length
NextPosition(pos, length) == pos + length

RECURSIVE ParseLoop(_, _, _)
\* while i < len(buffer): ...; return instructions
ParseLoop(buffer, pos, acc) ==
    IF pos < Len(buffer)
    THEN LET ins == DecodeAt(buffer, pos)
         IN  ParseLoop(buffer, NextPosition(pos, ins.length), Append(acc, ins))
    ELSE acc

StripPrefix(s) == IF startswith_0x(s) THEN SubSeq(s, 3, Len(s)) ELSE s

parse(s) == ParseLoop(bytes_fromhex(StripPrefix(s)), 0, <<>>)

\* return instructions: the one value parse hands back
parse_returns == <<"instructions">>

(***************************************************************************)
(* to_match(actualBytecode, expectedBytecode, immutables, address)         *)
(***************************************************************************)
nearLinesCount == 3

Running == [kind |-> "running", value |-> ""]

Returned(v) == [kind |-> "return", value |-> v]

Raised(e) == [kind |-> "raise", value |-> e]

\* maxInstructionsCount = max(len(actualInstructions), len(expectedInstructions))
maxInstructionsCount == Max(Len(actualInstructions), Len(expectedInstructions))

\* actualInstructions[k] if k < len(actualInstructions) else None: is it a dict?
HasActual(k) == k < Len(actualInstructions)

\* expectedInstructions[k] if k < len(expectedInstructions) else None: is it a dict?
HasExpected(k) == k < Len(expectedInstructions)

\* variant: the comparison is inverted
BytecodeEqual(actual, expected) == actual.bytecode = expected.bytecode

\* actual.get('bytecode') != expected.get('bytecode')
BytecodeDiffers(actual, expected) == actual.bytecode # expected.bytecode

\* to_match, lines 224-226: both inputs are decoded
ParseInputs ==
    /\ pc = "start"
    /\ actualInstructions' = parse(actualBytecode)
    /\ expectedInstructions' = parse(expectedBytecode)
    /\ i' = 0
    /\ pc' = "compare"
    /\ UNCHANGED <<actualBytecode, expectedBytecode, immutables, differences,
                   checkpoints, checkpointsArray, rendered, log, outcome>>
    /\ UNCHANGED parse_vars
    /\ UNCHANGED other_vars

\* to_match, lines 229-235: one iteration of the comparison loop
CompareStep ==
    /\ pc = "compare"
    /\ i < maxInstructionsCount
    /\ IF ~HasActual(i) /\ ~HasExpected(i)
       THEN /\ outcome' = Raised("ValueError: Invalid instructions data")
            /\ pc' = "done"
            /\ UNCHANGED <<i, differences>>
       ELSE IF HasActual(i) /\ ~HasExpected(i)
       THEN \* expected is None: expected.get(...) fails
            /\ outcome' = Raised("AttributeError: 'NoneType' object has no attribute 'get'")
            /\ pc' = "done"
            /\ UNCHANGED <<i, differences>>
       ELSE /\ differences' =
                 IF HasActual(i) /\ BytecodeDiffers(actualInstructions[i + 1],
                                                    expectedInstructions[i + 1])
                 THEN Append(differences, i)
                 ELSE differences
            /\ i' = i + 1
            /\ UNCHANGED <<outcome, pc>>
    /\ UNCHANGED <<actualBytecode, expectedBytecode, immutables, actualInstructions,
                   expectedInstructions, checkpoints, checkpointsArray, rendered, log>>
    /\ UNCHANGED parse_vars
    /\ UNCHANGED other_vars

\* to_match, lines 237-240: the loop is over; an empty difference list is a match
CompareEnd ==
    /\ pc = "compare"
    /\ i = maxInstructionsCount
    /\ IF differences = <<>>
       THEN /\ log' = "okay: Bytecodes are fully matched"
            /\ outcome' = Returned(None)
            /\ pc' = "done"
       ELSE /\ log' = "warn: Bytecodes have differences"
            /\ pc' = "checkpoints"
            /\ UNCHANGED outcome
    /\ UNCHANGED <<actualBytecode, expectedBytecode, immutables, actualInstructions,
                   expectedInstructions, i, differences, checkpoints,
                   checkpointsArray, rendered>>
    /\ UNCHANGED parse_vars
    /\ UNCHANGED other_vars

\* checkpoints = {0, *differences} plus the last index of each non-empty stream
BaseCheckpoints ==
    {0} \cup {differences[k] : k \in 1..Len(differences)}
        \cup (IF Len(actualInstructions) > 0 THEN {Len(actualInstructions) - 1} ELSE {})
        \cup (IF Len(expectedInstructions) > 0 THEN {Len(expectedInstructions) - 1} ELSE {})

\* variant: the indices a window adds get windows of their own
WindowReexpanded(ind) ==
    Max(0, ind - 2 * nearLinesCount)..Min(ind + 2 * nearLinesCount, maxInstructionsCount - 1)

\* variant: the window is not cut at the last instruction
WindowUnclamped(ind) == Max(0, ind - nearLinesCount)..(ind + nearLinesCount)

\* range(max(0, ind - nearLinesCount), min(ind + nearLinesCount, max - 1) + 1)
Window(ind) ==
    Max(0, ind - nearLinesCount)..Min(ind + nearLinesCount, maxInstructionsCount - 1)

\* for ind in list(checkpoints): the loop runs over a copy of the base set
ExpandedCheckpoints == BaseCheckpoints \cup UNION {Window(ind) : ind \in BaseCheckpoints}

RECURSIVE SortedList(_)
\* sorted(list(S))
SortedList(S) ==
    IF S = {} THEN <<>>
    ELSE LET m == CHOOSE x \in S : \A y \in S : x <= y
         IN  <<m>> \o SortedList(S \ {m})

\* to_match, lines 242-257
BuildCheckpoints ==
    /\ pc = "checkpoints"
    /\ checkpoints' = ExpandedCheckpoints
    /\ checkpointsArray' = SortedList(ExpandedCheckpoints)
    /\ i' = 0
    /\ pc' = "render"
    /\ UNCHANGED <<actualBytecode, expectedBytecode, immutables, actualInstructions,
                   expectedInstructions, differences, rendered, log, outcome>>
    /\ UNCHANGED parse_vars
    /\ UNCHANGED other_vars

\* '0x' + ins['bytecode'][2:] if len(ins['bytecode']) > 2 else ''
Params(ins) ==
    IF Len(ins.bytecode) > 2
    THEN <<"0", "x">> \o SubSeq(ins.bytecode, 3, Len(ins.bytecode))
    ELSE <<>>

\* paramsLength = len(expected['bytecode']) // 2 - 1
paramsLength(expected) == (Len(expected.bytecode) \div 2) - 1

\* isImmutable = immutables.get(expected['start'] + 1) == paramsLength
isImmutable(expected, imm) ==
    /\ (expected.start + 1) \in DOMAIN imm
    /\ imm[expected.start + 1] = paramsLength(expected)

\* variant: the test for a gap is left out
EllipsisBeforeEveryLine(k) == k > 0 /\ checkpointsArray[k] # 0

\* prevInd and prevInd != currInd - 1, with prevInd = None when k = 0
EllipsisBefore(k) ==
    /\ k > 0
    /\ checkpointsArray[k] # 0
    /\ checkpointsArray[k] # checkpointsArray[k + 1] - 1

\* the line printed for index currInd (lines 291-309)
RenderLine(k) ==
    LET currInd == checkpointsArray[k + 1]
        actual == actualInstructions[currInd + 1]
        expected == expectedInstructions[currInd + 1]
    IN  IF ~HasActual(currInd) /\ HasExpected(currInd)
        THEN [index |-> currInd, ellipsis |-> EllipsisBefore(k), colour |-> "red",
              opcode |-> "plain", opname |-> "plain", params |-> "plain"]
        ELSE IF HasActual(currInd) /\ ~HasExpected(currInd)
        THEN [index |-> currInd, ellipsis |-> EllipsisBefore(k), colour |-> "green",
              opcode |-> "plain", opname |-> "plain", params |-> "plain"]
        ELSE [index |-> currInd, ellipsis |-> EllipsisBefore(k), colour |-> "none",
              opcode |-> IF actual.op.code = expected.op.code
                         THEN "plain" ELSE "bgRed bgGreen",
              opname |-> IF actual.op.name = expected.op.name
                         THEN "plain" ELSE "bgRed bgGreen",
              params |-> IF Params(actual) = Params(expected) THEN "plain"
                         ELSE IF isImmutable(expected, immutables)
                         THEN "bgYellow bgGreen"
                         ELSE "bgRed bgGreen"]

\* to_match, lines 285-311: one iteration of the render loop
RenderStep ==
    /\ pc = "render"
    /\ i < Len(checkpointsArray)
    /\ IF ~HasActual(checkpointsArray[i + 1]) /\ ~HasExpected(checkpointsArray[i + 1])
       THEN /\ outcome' = Raised("ValueError: Invalid bytecode difference data")
            /\ pc' = "done"
            /\ UNCHANGED <<i, rendered>>
       ELSE /\ rendered' = Append(rendered, RenderLine(i))
            /\ i' = i + 1
            /\ UNCHANGED <<outcome, pc>>
    /\ UNCHANGED <<actualBytecode, expectedBytecode, immutables, actualInstructions,
                   expectedInstructions, differences, checkpoints, checkpointsArray, log>>
    /\ UNCHANGED parse_vars
    /\ UNCHANGED other_vars

\* to_match falls off its end after the render loop: it returns None
RenderEnd ==
    /\ pc = "render"
    /\ i = Len(checkpointsArray)
    /\ outcome' = Returned(None)
    /\ pc' = "done"
    /\ UNCHANGED <<actualBytecode, expectedBytecode, immutables, actualInstructions,
                   expectedInstructions, i, differences, checkpoints,
                   checkpointsArray, rendered, log>>
    /\ UNCHANGED parse_vars
    /\ UNCHANGED other_vars

(***************************************************************************)
(* Inputs                                                                  *)
(***************************************************************************)
MaxLen == 3

ParseMaxLen == 3

\* all byte strings over S of at most n bytes
ByteSeqs(S, n) == UNION {[1..k -> S] : k \in 0..n}

\* ADD, PUSH1, PUSH2
MatchBytes == {1, 96, 97}

\* a CBOR blob followed by its own length as a big-endian 16-bit integer
WithMetadata(code, blob) == code \o blob \o <<Len(blob) \div 256, Len(blob) % 256>>

MetadataBlobs == {<<161>>, <<162>>}

MatchInputs ==
    {<<"0", "x">> \o bytes_hex(b) : b \in ByteSeqs(MatchBytes, MaxLen)}
    \cup {<<"0", "x">> \o bytes_hex(WithMetadata(c, m)) :
             c \in ByteSeqs(MatchBytes, MaxLen - 2), m \in MetadataBlobs}

EmptyDict == [k \in {} |-> 0]

\* immutableReferences flattened to start -> length
ImmutableMaps ==
    {EmptyDict, [k \in {1} |-> 1], [k \in {1} |-> 2], [k \in {2} |-> 1],
     [k \in {0} |-> 1], [k \in {1, 2} |-> 1]}

\* STOP, JUMPDEST, PUSH0, PUSH1, PUSH2, PUSH32, DUP1, an unassigned byte, INVALID
ParseBytes == {0, 91, 95, 96, 97, 127, 128, 239, 254}

ToUpper(s) ==
    [k \in 1..Len(s) |->
        IF \E v \in 1..16 : HexDigits[v] = s[k]
        THEN UpperHexDigits[CHOOSE v \in 1..16 : HexDigits[v] = s[k]]
        ELSE s[k]]

ParseHexStrings ==
    LET lower == {bytes_hex(b) : b \in ByteSeqs(ParseBytes, ParseMaxLen)}
    IN  lower \cup {ToUpper(h) : h \in lower}

ParseArguments == ParseHexStrings \cup {<<"0", "x">> \o h : h \in ParseHexStrings}

(***************************************************************************)
(* Components that take no part in a run of the decoder or the comparator  *)
(***************************************************************************)
HostIdle ==
    /\ host_config = EmptyDict
    /\ host_env = EmptyDict
    /\ host_result = None
    /\ host_pc = "idle"

DepIdle ==
    /\ dep_path = <<>>
    /\ dep_config = <<>>
    /\ dep_result = <<None, NoneName>>
    /\ dep_pc = "idle"

\* what encode_constructor_arguments hands back: the calldata, or an error;
\* head and compl_data are its locals constructor_calldata (before the final
\* loop) and compl_data
NoEncoding == [ok |-> TRUE, calldata |-> <<>>, head |-> <<>>, compl_data |-> <<>>, err |-> ""]

EncIdle ==
    /\ enc_abi = <<>>
    /\ enc_args = <<>>
    /\ enc_result = NoEncoding
    /\ enc_pc = "idle"

\* the value of config before load_config
NoConfig == [contracts |-> <<>>, source_comparison |-> TRUE,
             fail_on_bytecode_comparison_error |-> TRUE]

BatchIdle ==
    /\ enable_binary_comparison = FALSE
    /\ config_paths = 0
    /\ config_index = 0
    /\ loaded_config = NoConfig
    /\ raise_exception = TRUE
    /\ sub_process = None
    /\ contract_index = 0
    /\ source_stats = <<>>
    /\ bytecode_stats = <<>>
    /\ all_results = <<>>
    /\ allow_source_diff = {}
    /\ allow_bytecode_diff = {}
    /\ exit_code = None
    /\ main_pc = "idle"
    /\ events = <<>>
    /\ start_attempted = FALSE
    /\ stop_calls = <<>>
    /\ exit_cause = None
    /\ seen_diffs = {}
    /\ policies = <<>>

CfgIdle ==
    /\ cfg_path = <<>>
    /\ cfg_file = <<>>
    /\ cfg_result = None
    /\ cfg_pc = "idle"

\* constructor_abi when it is None
AbiNone == [some |-> FALSE, inputs |-> <<>>]

\* get_calldata has neither returned nor raised
NoCalldata == [kind |-> "none", value |-> <<>>, err |-> ""]

CdIdle ==
    /\ cd_address = ""
    /\ cd_abi = <<>>
    /\ cd_config = <<>>
    /\ cd_constructor_abi = AbiNone
    /\ cd_result = NoCalldata
    /\ cd_pc = "idle"
    /\ cd_consulted = FALSE

\* run_bytecode_diff has neither returned nor raised
NoDiffResult == [kind |-> "none", value |-> FALSE, err |-> ""]

BdIdle ==
    /\ bd_github = <<>>
    /\ bd_missing = <<>>
    /\ bd_compiled = None
    /\ bd_remote = None
    /\ bd_local = None
    /\ bd_result = NoDiffResult
    /\ bd_pc = "idle"
    /\ bd_trace = <<>>

\* run_source_diff has neither returned nor raised
NoStatistics ==
    [kind |-> "none", files_count |-> 0, files_found |-> 0, identical_files |-> 0,
     files_with_diffs |-> 0, err |-> ""]

SdIdle ==
    /\ sd_files = <<>>
    /\ sd_prettify = FALSE
    /\ sd_index = 0
    /\ sd_report = <<>>
    /\ sd_result = NoStatistics
    /\ sd_pc = "idle"

\* a value that is a str or None
NoText == [some |-> FALSE, text |-> ""]

GhIdle ==
    /\ gh_dirs = {}
    /\ gh_file_dirs = {}
    /\ gh_content = ""
    /\ gh_root = <<>>
    /\ gh_stack = <<>>
    /\ gh_checked = <<>>
    /\ gh_ret = NoText
    /\ gh_result = NoText
    /\ gh_pc = "idle"
    /\ gh_listed = <<>>

LastIdle == SdIdle /\ GhIdle

MoreIdle == CfgIdle /\ CdIdle /\ BdIdle /\ LastIdle

OthersIdle == HostIdle /\ DepIdle /\ EncIdle /\ BatchIdle /\ MoreIdle

(***************************************************************************)
(* Specifications                                                          *)
(***************************************************************************)
ParseIdle ==
    /\ bytecode = <<>>
    /\ instructions = <<>>
    /\ parse_pc = "idle"
    /\ parse_i = 0

MatchLocals ==
    /\ actualInstructions = <<>>
    /\ expectedInstructions = <<>>
    /\ i = 0
    /\ differences = <<>>
    /\ checkpoints = {}
    /\ checkpointsArray = <<>>
    /\ rendered = <<>>
    /\ log = ""
    /\ outcome = Running

\* a call of to_match on a pair of bytecodes and an immutable map
Init ==
    /\ ParseIdle
    /\ actualBytecode \in MatchInputs
    /\ expectedBytecode \in MatchInputs
    /\ immutables \in ImmutableMaps
    /\ MatchLocals
    /\ pc = "start"
    /\ OthersIdle

Next ==
    \/ ParseInputs
    \/ CompareStep
    \/ CompareEnd
    \/ BuildCheckpoints
    \/ RenderStep
    \/ RenderEnd

Spec == Init /\ [][Next]_vars

\* a stand-alone call of parse on one hex string
InitParse ==
    /\ bytecode \in ParseArguments
    /\ instructions = <<>>
    /\ parse_pc = "called"
    /\ parse_i = 0
    /\ actualBytecode = <<>>
    /\ expectedBytecode = <<>>
    /\ immutables = EmptyDict
    /\ MatchLocals
    /\ pc = "idle"
    /\ OthersIdle

ParseCall ==
    /\ parse_pc = "called"
    /\ instructions' = parse(bytecode)
    /\ parse_pc' = "returned"
    /\ UNCHANGED <<bytecode, parse_i>>
    /\ UNCHANGED match_vars
    /\ UNCHANGED other_vars

NextParse == ParseCall

SpecParse == InitParse /\ [][NextParse]_vars

\* to_match is not running
MatchIdle ==
    /\ actualBytecode = <<>>
    /\ expectedBytecode = <<>>
    /\ immutables = EmptyDict
    /\ MatchLocals
    /\ pc = "idle"

(***************************************************************************)
(* get_explorer_hostname(config)  (src/diffyscan/utils/explorer.py)        *)
(***************************************************************************)
\* config.get(key): the value, or None when the key is absent
dict_get(d, key) == IF key \in DOMAIN d THEN d[key] ELSE None

\* get_config_value(config, key, warn_if_missing): the warning does not
\* change the returned value
get_config_value(config, key) == dict_get(config, key)

\* get_explorer_hostname(config); env is the process environment, which the
\* function does not read
get_explorer_hostname(config, env) == get_config_value(config, "explorer_hostname")

HostNames == {"api.etherscan.io", "example.com"}

EnvVarNames == {"MYHOST", "EXPLORER_HOST"}

\* all dicts with keys drawn from K and values from V
Dicts(K, V) == UNION {[D -> V] : D \in SUBSET K}

HostConfigs ==
    {c \in Dicts({"explorer_hostname", "explorer_hostname_env_var", "explorer_chain_id"},
                 HostNames \cup EnvVarNames \cup {"1"}) :
        /\ "explorer_hostname" \in DOMAIN c => c["explorer_hostname"] \in HostNames
        /\ "explorer_hostname_env_var" \in DOMAIN c
               => c["explorer_hostname_env_var"] \in EnvVarNames
        /\ "explorer_chain_id" \in DOMAIN c => c["explorer_chain_id"] = "1"}

InitHostname ==
    /\ ParseIdle
    /\ MatchIdle
    /\ MoreIdle
    /\ DepIdle
    /\ EncIdle
    /\ BatchIdle
    /\ host_config \in HostConfigs
    /\ host_env \in Dicts(EnvVarNames, HostNames)
    /\ host_result = None
    /\ host_pc = "called"

HostnameCall ==
    /\ host_pc = "called"
    /\ host_result' = get_explorer_hostname(host_config, host_env)
    /\ host_pc' = "returned"
    /\ UNCHANGED <<host_config, host_env>>
    /\ UNCHANGED <<parse_vars, match_vars, dep_vars, enc_vars, batch_vars, history_vars, more_vars>>

NextHostname == HostnameCall

SpecHostname == InitHostname /\ [][NextHostname]_vars

\* C19: with only explorer_hostname_env_var in the config and that variable
\* set, the variable's value is returned; with explorer_hostname given
\* directly, that value is returned.
C19_HostnameFromEnvOrDirect ==
    host_pc = "returned"
        => /\ ("explorer_hostname_env_var" \in DOMAIN host_config
                /\ "explorer_hostname" \notin DOMAIN host_config
                /\ host_config["explorer_hostname_env_var"] \in DOMAIN host_env)
               => host_result = host_env[host_config["explorer_hostname_env_var"]]
           /\ "explorer_hostname" \in DOMAIN host_config
               => host_result = host_config["explorer_hostname"]


(***************************************************************************)
(* Properties of the comparator (specification Spec)                       *)
(***************************************************************************)
MatchDone == pc = "done"

Decoded == pc # "start" /\ pc # "idle"

CountsDiffer == Len(actualInstructions) # Len(expectedInstructions)

\* the pair at index k (0-based) is present on both sides and its raw spans differ
MismatchAt(k) ==
    /\ k < Len(actualInstructions)
    /\ k < Len(expectedInstructions)
    /\ actualInstructions[k + 1].bytecode # expectedInstructions[k + 1].bytecode

PairedIndices == 0..(Min(Len(actualInstructions), Len(expectedInstructions)) - 1)

\* [start, start + length) meets some region [s, s + l) of the immutable map
OverlapsImmutable(ins, imm) ==
    \E s \in DOMAIN imm : ins.start < s + imm[s] /\ s < ins.start + ins.length

\* C1: whenever the two decoded instruction counts differ, the call ends by
\* raising BinVerifierError "different length"; it neither returns nor raises
\* anything else.
C1_LengthMismatchRaises ==
    (MatchDone /\ CountsDiffer)
        => outcome = Raised("BinVerifierError: different length")

\* C2: with equal counts, a differing pair whose expected instruction lies on
\* no immutable region makes the call raise BinVerifierError "differences not
\* on the immutable reference position".
C2_NonImmutableDiffRaises ==
    (/\ MatchDone
     /\ ~CountsDiffer
     /\ \E k \in PairedIndices :
            /\ MismatchAt(k)
            /\ ~OverlapsImmutable(expectedInstructions[k + 1], immutables))
        => outcome = Raised("BinVerifierError: differences not on the immutable reference position")

\* C3: with equal counts and at least one differing pair, all of them covered
\* by immutable regions, the call does not raise and returns False.
C3_ImmutableOnlyReturnsFalse ==
    (/\ MatchDone
     /\ ~CountsDiffer
     /\ \E k \in PairedIndices : MismatchAt(k)
     /\ \A k \in PairedIndices :
            MismatchAt(k) => OverlapsImmutable(expectedInstructions[k + 1], immutables))
        => outcome = Returned("False")

\* C4: a rendered differing pair is shown as immutable-tolerated exactly when
\* the expected instruction's byte range overlaps a region of the immutable map.
C4_ToleratedIffOverlap ==
    \A n \in 1..Len(rendered) :
        MismatchAt(rendered[n].index)
            => ((rendered[n].params = "bgYellow bgGreen")
                <=> OverlapsImmutable(expectedInstructions[rendered[n].index + 1],
                                      immutables))

\* C5: comparing a bytecode with itself under an empty immutable map records
\* no mismatch index, renders nothing, raises nothing and ends as a full match.
C5_SelfCompareFullMatch ==
    (actualBytecode = expectedBytecode /\ immutables = EmptyDict)
        => /\ differences = <<>>
           /\ rendered = <<>>
           /\ outcome.kind # "raise"
           /\ MatchDone => /\ outcome = Returned(None)
                           /\ log = "okay: Bytecodes are fully matched"

\* the last decoded instruction of the actual stream is a push cut short
ActualEndsTruncated ==
    /\ Len(actualInstructions) > 0
    /\ LET last == actualInstructions[Len(actualInstructions)]
       IN  2 * last.length > Len(last.bytecode)

C5_Witness ==
    /\ MatchDone
    /\ actualBytecode = expectedBytecode
    /\ immutables = EmptyDict
    /\ Len(actualInstructions) >= 2
    /\ ActualEndsTruncated

\* both inputs are the same code followed by different metadata blobs
SameCodeDifferentMetadata ==
    \E c \in ByteSeqs(MatchBytes, MaxLen - 2) : \E m1, m2 \in MetadataBlobs :
        /\ m1 # m2
        /\ Len(c) > 0
        /\ actualBytecode = <<"0", "x">> \o bytes_hex(WithMetadata(c, m1))
        /\ expectedBytecode = <<"0", "x">> \o bytes_hex(WithMetadata(c, m2))

\* C6: two bytecodes that differ only inside their trailing metadata blob
\* compare as a match.
C6_MetadataIgnored ==
    (MatchDone /\ SameCodeDifferentMetadata)
        => /\ outcome = Returned(None)
           /\ log = "okay: Bytecodes are fully matched"

(***************************************************************************)
(* Properties of the decoder (specification SpecParse)                     *)
(***************************************************************************)
ParseReturned == parse_pc = "returned"

\* the input's hex digits, without the optional 0x
InputDigits ==
    IF Len(bytecode) >= 2 /\ bytecode[1] = "0" /\ bytecode[2] = "x"
    THEN [k \in 1..(Len(bytecode) - 2) |-> bytecode[k + 2]]
    ELSE bytecode

\* the input as bytes, digit pair by digit pair
InputBytes ==
    [k \in 1..(Len(InputDigits) \div 2) |->
        LET hi == CHOOSE v \in 0..15 :
                      HexDigits[v + 1] = InputDigits[2 * k - 1]
                      \/ UpperHexDigits[v + 1] = InputDigits[2 * k - 1]
            lo == CHOOSE v \in 0..15 :
                      HexDigits[v + 1] = InputDigits[2 * k]
                      \/ UpperHexDigits[v + 1] = InputDigits[2 * k]
        IN  16 * hi + lo]

RECURSIVE ConcatRaw(_, _)
\* the raw hex spans of the first n instructions, concatenated
ConcatRaw(ins, n) == IF n = 0 THEN <<>> ELSE ConcatRaw(ins, n - 1) \o ins[n].bytecode

\* the bytes a raw hex span stands for
SpanBytes(h) ==
    [k \in 1..(Len(h) \div 2) |->
        16 * ((CHOOSE v \in 0..15 : HexDigits[v + 1] = h[2 * k - 1]))
        + (CHOOSE v \in 0..15 : HexDigits[v + 1] = h[2 * k])]

\* C7: the raw hex spans of the decoded instructions, concatenated in decode
\* order, are the input's bytes: none dropped, duplicated or reordered.
C7_DecodeRoundTrip ==
    ParseReturned
        => LET all == ConcatRaw(instructions, Len(instructions))
           IN  /\ Len(all) = 2 * Len(InputBytes)
               /\ SpanBytes(all) = InputBytes

InstructionsEndTruncated ==
    /\ Len(instructions) > 0
    /\ LET last == instructions[Len(instructions)]
       IN  2 * last.length > Len(last.bytecode)

C7_Witness ==
    /\ ParseReturned
    /\ Len(instructions) >= 2
    /\ instructions[1].length = 2
    /\ InstructionsEndTruncated

\* C8: an instruction's length is 1 unless its opcode is PUSH1..PUSH32, and
\* then 1 + (opcode - PUSH0); PUSH0 is 0x5F and PUSH32 is 0x7F.
C8_LengthLaw ==
    /\ PUSH0 = 95
    /\ PUSH32 = 127
    /\ ParseReturned
        => \A k \in 1..Len(instructions) :
               LET ins == instructions[k]
               IN  ins.length = IF PUSH0 < ins.op.code /\ ins.op.code <= PUSH32
                                THEN 1 + (ins.op.code - PUSH0)
                                ELSE 1

C8_Witness ==
    /\ ParseReturned
    /\ \E k \in 1..Len(instructions) : instructions[k].op.name = "PUSH0"
    /\ \E k \in 1..Len(instructions) : instructions[k].op.name = "PUSH1"
    /\ \E k \in 1..Len(instructions) : instructions[k].op.code = 128

\* C9: the first instruction starts at offset 0, offsets strictly increase,
\* and each instruction starts where the previous one's declared length ends.
C9_OffsetsChain ==
    ParseReturned
        => /\ Len(instructions) > 0 => instructions[1].start = 0
           /\ \A k \in 1..(Len(instructions) - 1) :
                  /\ instructions[k + 1].start = instructions[k].start + instructions[k].length
                  /\ instructions[k + 1].start > instructions[k].start

C9_Witness ==
    /\ ParseReturned
    /\ Len(instructions) = 2
    /\ instructions[1].op.name = "PUSH1"
    /\ instructions[2].start = 2
    /\ instructions[2].op.name = "JUMPDEST"

\* C10: a push whose declared length runs past the end of the buffer is the
\* last instruction, it carries exactly the bytes that remain, and decoding
\* ends normally having consumed the buffer to its end.
C10_TruncatedPushDecodes ==
    ParseReturned
        => /\ \A k \in 1..Len(instructions) :
                  LET ins == instructions[k]
                      avail == Len(InputBytes) - ins.start
                  IN  /\ Len(ins.bytecode) = 2 * Min(ins.length, avail)
                      /\ SpanBytes(ins.bytecode)
                             = [j \in 1..Min(ins.length, avail) |-> InputBytes[ins.start + j]]
                      /\ ins.length > avail => k = Len(instructions)
           /\ Len(InputBytes) > 0
                  => /\ Len(instructions) > 0
                     /\ LET last == instructions[Len(instructions)]
                        IN  last.start + (Len(last.bytecode) \div 2) = Len(InputBytes)

\* the input bytes that are no key of the opcode table
UnknownInputBytes ==
    {InputBytes[k] : k \in 1..Len(InputBytes)} \ {p[1] : p \in OpcodeItems}

\* C11: every byte absent from the opcode table decodes as a one-byte INVALID
\* instruction, and the decoder returns, next to the instruction list, the
\* set of the hex forms of exactly those bytes.
C11_UnknownOpcodesReported ==
    (ParseReturned /\ UnknownInputBytes # {})
        => /\ \A k \in 1..Len(instructions) :
                  instructions[k].op.code \in UnknownInputBytes
                      => /\ instructions[k].op.name = "INVALID"
                         /\ instructions[k].length = 1
           /\ \E n \in 1..Len(parse_returns) : parse_returns[n] = "unknown_opcodes"

C10_Witness ==
    /\ ParseReturned
    /\ Len(instructions) >= 2
    /\ LET last == instructions[Len(instructions)]
       IN  /\ last.op.name = "PUSH32"
           /\ last.length = 33
           /\ Len(last.bytecode) = 4

(***************************************************************************)
(* resolve_dep(path_to_file, config)  (src/diffyscan/utils/github.py)      *)
(*                                                                         *)
(* config["dependencies"] is a sequence of [name, dep] records in the      *)
(* dict's insertion order, names distinct; a str is a sequence of          *)
(* characters; the None of the returned dep_name is NoneName.              *)
(***************************************************************************)
\* s.startswith(prefix)
startswith(s, prefix) ==
    Len(s) >= Len(prefix) /\ SubSeq(s, 1, Len(prefix)) = prefix

\* variant: the keys are tried in the dict's own order
InsertionOrder(names) == names

RECURSIVE SortedByLenDesc(_)
\* sorted(names, key=len, reverse=True): stable, longest first
SortedByLenDesc(names) ==
    IF names = <<>> THEN <<>>
    ELSE LET k == CHOOSE a \in 1..Len(names) :
                      /\ \A b \in 1..Len(names) : Len(names[b]) <= Len(names[a])
                      /\ \A b \in 1..(a - 1) : Len(names[b]) < Len(names[a])
             rest == [n \in 1..(Len(names) - 1) |->
                         IF n < k THEN names[n] ELSE names[n + 1]]
         IN  <<names[k]>> \o SortedByLenDesc(rest)

\* dep_names = sorted(list(config.get("dependencies", {}).keys()), ...)
dep_names(deps) == SortedByLenDesc([n \in 1..Len(deps) |-> deps[n].name])

\* config["dependencies"][dep_name]
DependencyOf(deps, name) ==
    deps[CHOOSE n \in 1..Len(deps) : deps[n].name = name].dep

RECURSIVE FirstMatch(_, _, _, _)
\* for dep_name in dep_names: if path_to_file.startswith(f"{dep_name}/"): return ...
FirstMatch(path, deps, names, n) ==
    IF n > Len(names) THEN <<None, NoneName>>
    ELSE IF startswith(path, names[n] \o <<"/">>)
    THEN <<DependencyOf(deps, names[n]), names[n]>>
    ELSE FirstMatch(path, deps, names, n + 1)

resolve_dep(path, deps) == FirstMatch(path, deps, dep_names(deps), 1)

\* path_to_file[len(dep_name) + 1:], or the path itself without a dependency
path_to_file_without_dependency(path, name) ==
    IF name = NoneName \/ name = <<>> THEN path
    ELSE SubSeq(path, Len(name) + 2, Len(path))

MaxPathLen == 4

MaxDeps == 2

PathChars == {"a", "b", "/"}

DepNames == {<<"a">>, <<"b">>, <<"a", "b">>, <<"a", "/", "b">>, <<"a", "/">>}

DepRepos == <<"repo1", "repo2", "repo3", "repo4", "repo5">>

\* dependency tables of at most MaxDeps entries with distinct names
DepTables ==
    LET Lists == UNION {[1..k -> DepNames] : k \in 0..Min(MaxDeps, Cardinality(DepNames))}
    IN  {[n \in 1..Len(l) |-> [name |-> l[n], dep |-> DepRepos[n]]] :
            l \in {x \in Lists : \A a, b \in 1..Len(x) : a # b => x[a] # x[b]}}

InitResolve ==
    /\ ParseIdle
    /\ MatchIdle
    /\ MoreIdle
    /\ HostIdle
    /\ EncIdle
    /\ BatchIdle
    /\ dep_path \in UNION {[1..k -> PathChars] : k \in 0..MaxPathLen}
    /\ dep_config \in DepTables
    /\ dep_result = <<None, NoneName>>
    /\ dep_pc = "called"

ResolveCall ==
    /\ dep_pc = "called"
    /\ dep_result' = resolve_dep(dep_path, dep_config)
    /\ dep_pc' = "returned"
    /\ UNCHANGED <<dep_path, dep_config>>
    /\ UNCHANGED <<parse_vars, match_vars, host_vars, enc_vars, batch_vars, history_vars, more_vars>>

NextResolve == ResolveCall

SpecResolve == InitResolve /\ [][NextResolve]_vars

\* the path starts with the n-th key followed by "/"
KeyIsPrefixDir(n) ==
    LET k == dep_config[n].name
    IN  /\ Len(dep_path) >= Len(k) + 1
        /\ \A c \in 1..Len(k) : dep_path[c] = k[c]
        /\ dep_path[Len(k) + 1] = "/"

\* C20: resolve_dep returns the longest key k with path = k + "/" + ..., with
\* that key's dependency config, and (None, None) exactly when no key is such
\* a prefix; a key that is a prefix without the "/" never matches.
C20_ResolveDepLongestPrefix ==
    dep_pc = "returned"
        => IF \E n \in 1..Len(dep_config) : KeyIsPrefixDir(n)
           THEN \E n \in 1..Len(dep_config) :
                    /\ KeyIsPrefixDir(n)
                    /\ \A o \in 1..Len(dep_config) :
                           KeyIsPrefixDir(o)
                               => Len(dep_config[o].name) <= Len(dep_config[n].name)
                    /\ dep_result = <<dep_config[n].dep, dep_config[n].name>>
           ELSE dep_result = <<None, NoneName>>

C20_Witness ==
    /\ dep_pc = "returned"
    /\ Len(dep_config) = 2
    /\ KeyIsPrefixDir(1)
    /\ KeyIsPrefixDir(2)
    /\ Len(dep_config[1].name) < Len(dep_config[2].name)
    /\ dep_result[2] = dep_config[2].name

(***************************************************************************)
(* encoder.py: ABI types, argument values and the one-word encoders        *)
(***************************************************************************)
\* An ABI type string, split the way the encoder's tests on it split it:
\* base is the leading name, size the decimal suffix (0 when there is none),
\* array tells whether the string ends with "[]", components is the
\* "components" entry of a tuple.  "uint256[]" is
\* [base |-> "uint", size |-> 256, array |-> TRUE, components |-> <<>>].
SolType(base, size) ==
    [base |-> base, size |-> size, array |-> FALSE, components |-> <<>>]

ArrayOf(t) == [t EXCEPT !.array = TRUE]

TupleOf(components) ==
    [base |-> "tuple", size |-> 0, array |-> FALSE, components |-> components]

\* arg_type == name, for a name without suffix
is_type(t, name) == ~t.array /\ t.size = 0 /\ t.base = name

\* re.match(r"^(u?int)(\d*)$", arg_type)
matches_int(t) == ~t.array /\ t.base \in {"int", "uint"}

\* re.match(r"^bytes(\d+)$", arg_type)
matches_bytesN(t) == ~t.array /\ t.base = "bytes" /\ t.size > 0

\* arg_type.endswith("[]")
endswith_brackets(t) == t.array

\* arg_type[:-2] of a type that ends with "[]"
element_type_of(t) == [t EXCEPT !.array = FALSE]

\* _parse_solidity_int_type(arg_type) of a type that matches_int
parse_solidity_int_type(t) ==
    [bits |-> IF t.size # 0 THEN t.size ELSE 256, is_signed |-> t.base = "int"]

\* An argument value: an int (n), a str (s) or a list (l)
IntV(n) == [n |-> n, s |-> <<>>, l |-> <<>>]

StrV(s) == [n |-> 0, s |-> s, l |-> <<>>]

ListV(l) == [n |-> 0, s |-> <<>>, l |-> l]

Pow16 == <<1, 16, 256, 4096, 65536, 1048576, 16777216, 268435456>>

\* hexadecimal digit k (0 is the lowest) of 0 <= n < 2^31
HexDigitAt(n, k) == IF k >= Len(Pow16) THEN 0 ELSE (n \div Pow16[k + 1]) % 16

\* format(value, "064x"): 64 characters, the sign first for a negative value
to_hex_with_alignment(value) ==
    IF value >= 0
    THEN [j \in 1..64 |-> HexDigits[HexDigitAt(value, 64 - j) + 1]]
    ELSE <<"-">> \o [j \in 1..63 |-> HexDigits[HexDigitAt(-value, 63 - j) + 1]]

\* format((1 << bits) + value, "064x") for -2^bits <= value < 0 and bits a
\* multiple of 4 up to 256: 2^bits + value = (2^bits - 1) - (-value - 1), so
\* each of its bits/4 digits is 15 minus the digit of -value - 1, and the
\* format pads with "0" up to 64 characters
shifted_to_hex(bits, value) ==
    [j \in 1..64 |->
        IF 64 - j < bits \div 4
        THEN HexDigits[15 - HexDigitAt(-value - 1, 64 - j) + 1]
        ELSE "0"]

encode_int(value, bits, is_signed) ==
    IF is_signed /\ value < 0
    THEN shifted_to_hex(bits, value)
    ELSE to_hex_with_alignment(value)

\* str.lower() on hex digits, "x" and the other characters of the model
ToLower(s) ==
    [k \in 1..Len(s) |->
        IF \E v \in 1..16 : UpperHexDigits[v] = s[k]
        THEN HexDigits[CHOOSE v \in 1..16 : UpperHexDigits[v] = s[k]]
        ELSE s[k]]

\* s.replace("0x", "")
RECURSIVE replace_0x(_)
replace_0x(s) ==
    IF Len(s) = 0 THEN <<>>
    ELSE IF startswith_0x(s) THEN replace_0x(SubSeq(s, 3, Len(s)))
    ELSE <<s[1]>> \o replace_0x(Tail(s))

\* s.lstrip("0x"): every leading character that is "0" or "x" is removed
RECURSIVE lstrip_0x(_)
lstrip_0x(s) ==
    IF Len(s) > 0 /\ s[1] \in {"0", "x"} THEN lstrip_0x(Tail(s)) ELSE s

\* s.ljust(width, "0")
ljust(s, width) == s \o [k \in 1..(width - Len(s)) |-> "0"]

\* format(int(digits, 16), "064x") for 1..64 hex digits
int16_to_hex(digits) == [k \in 1..(64 - Len(digits)) |-> "0"] \o digits

encode_address(address) == int16_to_hex(replace_0x(ToLower(address)))

\* A returned hex string, or a raised EncoderError
Ok(hex) == [ok |-> TRUE, hex |-> hex]

EncoderError == [ok |-> FALSE, hex |-> <<>>]

encode_fixed_bytes(value, length) ==
    LET raw_hex == replace_0x(ToLower(value))
        max_hex_len == length * 2
    IN  IF Len(raw_hex) > max_hex_len
        THEN EncoderError
        ELSE Ok(ljust(ljust(raw_hex, max_hex_len), 64))

encode_bytes(data) ==
    LET bytes_str == lstrip_0x(ToLower(data))
        count_of_bytes_from_hex == Len(bytes_str) \div 2
        remainder == Len(bytes_str) % 64
        padding_needed == IF remainder # 0 THEN 64 - remainder ELSE 0
    IN  IF bytes_str = <<>>
        THEN to_hex_with_alignment(0)
        ELSE to_hex_with_alignment(count_of_bytes_from_hex)
             \o bytes_str \o [k \in 1..padding_needed |-> "0"]

(***************************************************************************)
(* encoder.py: strings, arrays, tuples and the argument list               *)
(***************************************************************************)
\* c.encode("utf-8") for the characters of the model; "U+00E9" stands for
\* the one character e-acute, which takes two bytes
utf8 == [c \in {"a", "b", "U+00E9"} |->
            IF c = "a" THEN <<97>> ELSE IF c = "b" THEN <<98>> ELSE <<195, 169>>]

RECURSIVE encode_utf8(_)
encode_utf8(s) == IF s = <<>> THEN <<>> ELSE utf8[Head(s)] \o encode_utf8(Tail(s))

\* returns <<offset, encoded_data>>
encode_dynamic_type(arg_value, argument_index) ==
    <<to_hex_with_alignment((argument_index + 1) * 32), encode_bytes(arg_value)>>

\* returns <<offset, length_hex, contents_hex>>
encode_string(arg_length, compl_data, arg_value) ==
    LET argument_index == arg_length + Len(compl_data)
        encoded_value_bytes == encode_utf8(arg_value)
        hex_str == bytes_hex(encoded_value_bytes)
        remainder == Len(hex_str) % 64
    IN  << to_hex_with_alignment(argument_index * 32),
           to_hex_with_alignment(Len(encoded_value_bytes)),
           IF remainder # 0 THEN ljust(hex_str, Len(hex_str) + 64 - remainder)
           ELSE hex_str >>

\* int(bool(v)) of an int or bool argument
int_bool(v) == IF v.n # 0 THEN 1 ELSE 0

\* the loop of encode_array: elements_hex, or the error of the first element
RECURSIVE elements_hex(_, _)
elements_hex(element_type, elements) ==
    IF elements = <<>> THEN Ok(<<>>)
    ELSE LET elem == Head(elements)
             first ==
                 IF is_type(element_type, "address") THEN Ok(encode_address(elem.s))
                 ELSE IF is_type(element_type, "bool")
                 THEN Ok(to_hex_with_alignment(int_bool(elem)))
                 ELSE IF matches_int(element_type)
                 THEN LET p == parse_solidity_int_type(element_type)
                      IN  Ok(encode_int(elem.n, p.bits, p.is_signed))
                 ELSE IF matches_bytesN(element_type)
                 THEN encode_fixed_bytes(elem.s, element_type.size)
                 ELSE EncoderError
         IN  IF ~first.ok THEN EncoderError
             ELSE LET rest == elements_hex(element_type, Tail(elements))
                  IN  IF ~rest.ok THEN EncoderError
                      ELSE Ok(first.hex \o rest.hex)

encode_array(element_type, elements) ==
    LET length_hex == to_hex_with_alignment(Len(elements))
        body == elements_hex(element_type, elements)
    IN  IF ~body.ok THEN EncoderError ELSE Ok(length_hex \o body.hex)

\* the second loop of encode_tuple: placeholders become offsets, and the
\* parts are joined
RECURSIVE join_static_parts(_, _, _, _)
join_static_parts(static_parts, dynamic_parts, static_size, dynamic_offset) ==
    IF static_parts = <<>> THEN <<>>
    ELSE IF Head(static_parts) = NoneName
    THEN LET part_length == Len(Head(dynamic_parts)) \div 2
             padded_length == ((part_length + 31) \div 32) * 32
         IN  to_hex_with_alignment(static_size + dynamic_offset)
             \o join_static_parts(Tail(static_parts), Tail(dynamic_parts),
                                  static_size, dynamic_offset + padded_length)
    ELSE Head(static_parts)
         \o join_static_parts(Tail(static_parts), dynamic_parts,
                              static_size, dynamic_offset)

TupleParts(ok, static_parts, dynamic_parts) ==
    [ok |-> ok, static_parts |-> static_parts, dynamic_parts |-> dynamic_parts]

RECURSIVE encode_tuple(_, _)
RECURSIVE tuple_parts(_, _)
\* the first loop of encode_tuple over zip(components_abi, values)
tuple_parts(components_abi, values) ==
    IF components_abi = <<>> THEN TupleParts(TRUE, <<>>, <<>>)
    ELSE LET arg_type == Head(components_abi)
             val == Head(values)
             Failed == TupleParts(FALSE, <<>>, <<>>)
             Static(r) == IF r.ok THEN TupleParts(TRUE, <<r.hex>>, <<>>) ELSE Failed
             Dynamic(r) ==
                 IF r.ok THEN TupleParts(TRUE, <<NoneName>>, <<r.hex>>) ELSE Failed
             first ==
                 IF is_type(arg_type, "tuple")
                 THEN Static(encode_tuple(arg_type.components, val.l))
                 ELSE IF endswith_brackets(arg_type)
                 THEN Dynamic(encode_array(element_type_of(arg_type), val.l))
                 ELSE IF is_type(arg_type, "bytes") THEN Dynamic(Ok(encode_bytes(val.s)))
                 ELSE IF is_type(arg_type, "string") THEN Failed
                 ELSE IF is_type(arg_type, "address")
                 THEN Static(Ok(encode_address(val.s)))
                 ELSE IF is_type(arg_type, "bool")
                 THEN Static(Ok(to_hex_with_alignment(int_bool(val))))
                 ELSE IF matches_int(arg_type)
                 THEN LET p == parse_solidity_int_type(arg_type)
                      IN  Static(Ok(encode_int(val.n, p.bits, p.is_signed)))
                 ELSE IF matches_bytesN(arg_type)
                 THEN Static(encode_fixed_bytes(val.s, arg_type.size))
                 ELSE Failed
         IN  IF ~first.ok THEN Failed
             ELSE LET rest == tuple_parts(Tail(components_abi), Tail(values))
                  IN  IF ~rest.ok THEN Failed
                      ELSE TupleParts(TRUE,
                                      first.static_parts \o rest.static_parts,
                                      first.dynamic_parts \o rest.dynamic_parts)

encode_tuple(components_abi, values) ==
    IF Len(components_abi) # Len(values) THEN EncoderError
    ELSE LET parts == tuple_parts(components_abi, values)
         IN  IF ~parts.ok THEN EncoderError
             ELSE Ok(join_static_parts(parts.static_parts, parts.dynamic_parts,
                                       32 * Len(parts.static_parts), 0))

RECURSIVE Flatten(_)
Flatten(parts) == IF parts = <<>> THEN <<>> ELSE Head(parts) \o Flatten(Tail(parts))

Encoding(constructor_calldata, compl_data) ==
    [ok |-> TRUE, calldata |-> constructor_calldata \o Flatten(compl_data),
     head |-> constructor_calldata, compl_data |-> compl_data, err |-> ""]

EncodingFailed ==
    [ok |-> FALSE, calldata |-> <<>>, head |-> <<>>, compl_data |-> <<>>,
     err |-> "EncoderError"]

\* the loop of encode_constructor_arguments from argument_index on
RECURSIVE encode_arguments(_, _, _, _, _)
encode_arguments(constructor_abi, constructor_config_args, argument_index, constructor_calldata, compl_data) ==
    LET arg_length == Len(constructor_abi)
        Continue(calldata, data) ==
            encode_arguments(constructor_abi, constructor_config_args,
                             argument_index + 1, calldata, data)
        Static(r) ==
            IF r.ok THEN Continue(constructor_calldata \o r.hex, compl_data)
            ELSE EncodingFailed
    IN  IF argument_index >= arg_length
        THEN Encoding(constructor_calldata, compl_data)
        ELSE IF argument_index >= Len(constructor_config_args)
        THEN EncodingFailed
        ELSE
        LET arg_type == constructor_abi[argument_index + 1]
            arg_value == constructor_config_args[argument_index + 1]
        IN  IF is_type(arg_type, "address")
            THEN Static(Ok(encode_address(arg_value.s)))
            ELSE IF is_type(arg_type, "bool")
            THEN Static(Ok(to_hex_with_alignment(int_bool(arg_value))))
            ELSE IF matches_int(arg_type)
            THEN LET p == parse_solidity_int_type(arg_type)
                 IN  Static(Ok(encode_int(arg_value.n, p.bits, p.is_signed)))
            ELSE IF matches_bytesN(arg_type)
            THEN Static(encode_fixed_bytes(arg_value.s, arg_type.size))
            ELSE IF is_type(arg_type, "bytes")
            THEN LET r == encode_dynamic_type(arg_value.s, argument_index)
                 IN  Continue(constructor_calldata \o r[1], Append(compl_data, r[2]))
            ELSE IF is_type(arg_type, "string")
            THEN LET r == encode_string(arg_length, compl_data, arg_value.s)
                 IN  Continue(constructor_calldata \o r[1],
                              compl_data \o <<r[2], r[3]>>)
            ELSE IF is_type(arg_type, "tuple")
            THEN Static(encode_tuple(arg_type.components, arg_value.l))
            ELSE IF endswith_brackets(arg_type)
            THEN LET offset_hex == to_hex_with_alignment((argument_index + 1) * 32)
                     array_payload ==
                         encode_array(element_type_of(arg_type), arg_value.l)
                 IN  IF ~array_payload.ok THEN EncodingFailed
                     ELSE Continue(constructor_calldata \o offset_hex,
                                   compl_data \o <<array_payload.hex>>)
            ELSE EncodingFailed

encode_constructor_arguments(constructor_abi, constructor_config_args) ==
    encode_arguments(constructor_abi, constructor_config_args, 0, <<>>, <<>>)

(***************************************************************************)
(* Specification of one call of encode_constructor_arguments               *)
(***************************************************************************)
MaxArgs == 2

Arg(type, value) == [type |-> type, value |-> value]

Uint256 == SolType("uint", 256)

Foo == SolType("foo", 0)

Bytes == SolType("bytes", 0)

String == SolType("string", 0)

\* the (type, value) pairs an argument is drawn from
EncArgChoices == {
    Arg(Uint256, IntV(5)),
    Arg(SolType("uint", 8), IntV(255)),
    Arg(SolType("int", 8), IntV(-1)),
    Arg(SolType("int", 8), IntV(-128)),
    Arg(SolType("int", 8), IntV(127)),
    Arg(SolType("int", 16), IntV(-2)),
    Arg(SolType("int", 256), IntV(-1)),
    Arg(SolType("int", 0), IntV(-3)),
    Arg(SolType("bool", 0), IntV(1)),
    Arg(SolType("address", 0), StrV(<<"0", "x", "0", "0", "A", "1">>)),
    Arg(SolType("bytes", 2), StrV(<<"0", "x", "a", "b">>)),
    Arg(SolType("bytes", 1), StrV(<<"0", "x", "a", "b", "c", "d">>)),
    Arg(Bytes, StrV(<<"0", "x">>)),
    Arg(Bytes, StrV(<<"0", "x", "1", "0">>)),
    Arg(Bytes, StrV(<<"0", "x", "0", "1">>)),
    Arg(Bytes, StrV(<<"0", "x", "0", "0", "f", "f">>)),
    Arg(Bytes, StrV(<<"F", "F", "0", "0">>)),
    Arg(String, StrV(<<>>)),
    Arg(String, StrV(<<"a">>)),
    Arg(String, StrV(<<"b", "U+00E9">>)),
    Arg(ArrayOf(Uint256), ListV(<<>>)),
    Arg(ArrayOf(Uint256), ListV(<<IntV(1)>>)),
    Arg(Foo, IntV(1)),
    Arg(ArrayOf(Foo), ListV(<<>>)),
    Arg(ArrayOf(Foo), ListV(<<IntV(1)>>)),
    Arg(TupleOf(<<Uint256>>), ListV(<<IntV(1)>>)),
    Arg(TupleOf(<<Foo>>), ListV(<<IntV(1)>>)),
    Arg(TupleOf(<<ArrayOf(Foo)>>), ListV(<<ListV(<<>>)>>)),
    Arg(TupleOf(<<Uint256, Bytes>>), ListV(<<IntV(1), StrV(<<"0", "x", "1", "0">>)>>)),
    Arg(TupleOf(<<String>>), ListV(<<StrV(<<"a">>)>>))
}

InitEncoder ==
    /\ ParseIdle
    /\ MatchIdle
    /\ MoreIdle
    /\ HostIdle
    /\ DepIdle
    /\ BatchIdle
    /\ \E n \in 0..MaxArgs : \E a \in [1..n -> EncArgChoices] :
        /\ enc_abi = [k \in 1..n |-> a[k].type]
        /\ enc_args = [k \in 1..n |-> a[k].value]
    /\ enc_result = NoEncoding
    /\ enc_pc = "called"

EncodeCall ==
    /\ enc_pc = "called"
    /\ enc_result' = encode_constructor_arguments(enc_abi, enc_args)
    /\ enc_pc' = "returned"
    /\ UNCHANGED <<enc_abi, enc_args>>
    /\ UNCHANGED <<parse_vars, match_vars, host_vars, dep_vars, batch_vars, history_vars, more_vars>>

NextEncoder == EncodeCall

SpecEncoder == InitEncoder /\ [][NextEncoder]_vars

(***************************************************************************)
(* Properties of the encoder                                               *)
(***************************************************************************)
EncReturned == enc_pc = "returned"

EncEncoded == EncReturned /\ enc_result.ok

\* every argument takes one word of the head
NoTupleArgument == \A k \in 1..Len(enc_abi) : enc_abi[k].base # "tuple"

\* word j (from 1) of the returned calldata
CalldataWord(j) == SubSeq(enc_result.calldata, 64 * (j - 1) + 1, 64 * j)

RECURSIVE HexValue(_)
HexValue(digits) ==
    IF digits = <<>> THEN 0
    ELSE 16 * HexValue(SubSeq(digits, 1, Len(digits) - 1))
         + HexVal(digits[Len(digits)])

\* the number a word holds, -1 when it is not a number below 16^7
WordValue(w) ==
    IF \A k \in 1..57 : w[k] = "0" THEN HexValue(SubSeq(w, 58, 64)) ELSE -1

IsDynamic(t) == t.array \/ is_type(t, "bytes") \/ is_type(t, "string")

\* how many parts of the output after the head belong to an argument
PartsOf(t) ==
    IF t.base = "tuple" THEN 0
    ELSE IF t.array \/ is_type(t, "bytes") THEN 1
    ELSE IF is_type(t, "string") THEN 2
    ELSE 0

RECURSIVE PartsBefore(_)
PartsBefore(j) == IF j <= 1 THEN 0 ELSE PartsBefore(j - 1) + PartsOf(enc_abi[j - 1])

RECURSIVE LenOfParts(_)
LenOfParts(n) ==
    IF n = 0 THEN 0 ELSE LenOfParts(n - 1) + Len(enc_result.compl_data[n])

\* byte distance from the start of the output to the payload of argument j
PayloadStart(j) == (Len(enc_result.head) + LenOfParts(PartsBefore(j))) \div 2

\* C15: in the returned calldata the head word of every top-level dynamic
\* argument (bytes, string, T[]) holds the byte distance from the start of
\* the encoded arguments to the first byte of that argument's payload,
\* wherever the argument stands and whatever stands before and after it
\* (stated for argument lists in which every argument has one head word).
C15_OffsetsPointAtPayloads ==
    (EncEncoded /\ NoTupleArgument) =>
        \A j \in 1..Len(enc_abi) :
            IsDynamic(enc_abi[j]) => WordValue(CalldataWord(j)) = PayloadStart(j)

\* v lies in the range of the integer type t
InRange(t, v) ==
    LET bits == parse_solidity_int_type(t).bits
    IN  IF bits > 30 THEN (t.base = "int" \/ v >= 0)
        ELSE IF t.base = "int" THEN -(2 ^ (bits - 1)) <= v /\ v < 2 ^ (bits - 1)
        ELSE 0 <= v /\ v < 2 ^ bits

\* the 64 digits of 2^256 + v for a negative v above -2^31
SignExtended(v) == [j \in 1..64 |-> HexDigits[15 - HexDigitAt(-v - 1, 64 - j) + 1]]

\* the 64 digits of v >= 0, zeros first
ZeroPadded(v) == [j \in 1..64 |-> HexDigits[HexDigitAt(v, 64 - j) + 1]]

\* C16: the word encoded for an in-range value v of a type intN or uintN of
\* explicit width is exactly 64 hex characters; it is 2^256 + v for a
\* negative v of intN (sign-extended two's complement) and v left-padded
\* with zeros for a non-negative v.
C16_IntegersSignExtended ==
    (EncEncoded /\ NoTupleArgument) =>
        \A j \in 1..Len(enc_abi) :
            LET t == enc_abi[j]
                v == enc_args[j].n
            IN  (matches_int(t) /\ t.size # 0 /\ InRange(t, v)) =>
                    /\ Len(enc_result.head) >= 64 * j
                    /\ CalldataWord(j) = IF v < 0 THEN SignExtended(v)
                                         ELSE ZeroPadded(v)

\* the hex digits of a bytes value given with or without 0x
BytesDigits(s) == ToLower(IF startswith_0x(s) THEN SubSeq(s, 3, Len(s)) ELSE s)

\* a length word, then the content right-padded to whole 32-byte words
PaddedPayload(count, hex) ==
    ZeroPadded(count) \o hex \o [k \in 1..((64 - (Len(hex) % 64)) % 64) |-> "0"]

\* the payload the output holds for argument j
PayloadOf(j) ==
    LET first == PartsBefore(j) + 1
    IN  Flatten(SubSeq(enc_result.compl_data, first,
                       first + PartsOf(enc_abi[j]) - 1))

\* C17: the payload of a top-level bytes value of N bytes, given in hex with
\* or without 0x and whatever its first bytes are, is a word holding N and
\* then those N bytes right-padded with zero bytes to a 32-byte boundary; the
\* payload of a string has the same shape, N counting its UTF-8 bytes.
C17_BytesPayloadShape ==
    EncEncoded =>
        \A j \in 1..Len(enc_abi) :
            LET t == enc_abi[j]
                s == enc_args[j].s
            IN  /\ is_type(t, "bytes") =>
                    PayloadOf(j) = PaddedPayload(Len(BytesDigits(s)) \div 2,
                                                 BytesDigits(s))
                /\ is_type(t, "string") =>
                    PayloadOf(j) = PaddedPayload(Len(encode_utf8(s)),
                                                 bytes_hex(encode_utf8(s)))

\* the ABI types the encoder has a case for
HandledElement(t) ==
    \/ is_type(t, "address")
    \/ is_type(t, "bool")
    \/ matches_int(t)
    \/ matches_bytesN(t)

RECURSIVE HandledComponent(_)
HandledComponent(t) ==
    IF is_type(t, "tuple")
    THEN \A k \in 1..Len(t.components) : HandledComponent(t.components[k])
    ELSE IF t.array THEN HandledElement(element_type_of(t))
    ELSE is_type(t, "bytes") \/ HandledElement(t)

HandledArgument(t) ==
    IF is_type(t, "tuple")
    THEN \A k \in 1..Len(t.components) : HandledComponent(t.components[k])
    ELSE IF t.array THEN HandledElement(element_type_of(t))
    ELSE is_type(t, "bytes") \/ is_type(t, "string") \/ HandledElement(t)

\* C18: when the type of an argument is not handled, at top level, as the
\* element type of an array or as a component of a tuple, the call raises
\* EncoderError and returns no calldata.
C18_UnhandledTypeRaises ==
    (EncReturned /\ \E j \in 1..Len(enc_abi) : ~HandledArgument(enc_abi[j])) =>
        /\ ~enc_result.ok
        /\ enc_result.err = "EncoderError"
        /\ enc_result.calldata = <<>>

(***************************************************************************)
(* hardhat.stop, the exception policy and one loop iteration               *)
(***************************************************************************)
\* variant: the poll() test of stop is missing
stop_without_poll(process, terminated) ==
    IF process # None
    THEN [signalled |-> TRUE, process |-> IF terminated THEN "exited" ELSE "running"]
    ELSE [signalled |-> FALSE, process |-> process]

\* Hardhat.stop: a process that is set and still running is signalled;
\* terminated tells whether it is gone after SIGTERM and SIGKILL
stop(process, terminated) ==
    IF process # None /\ process = "running"
    THEN [signalled |-> TRUE, process |-> IF terminated THEN "exited" ELSE "running"]
    ELSE [signalled |-> FALSE, process |-> process]

\* variant: the exception is logged whatever the policy
log_whatever_policy(policy) == FALSE

\* ExceptionHandler.raise_exception_or_log: TRUE when the exception is raised
raise_exception_or_log(policy) == policy

\* what an iteration of the contract loop leaves: the two lists, and how it
\* ended ("next" contract, "error" propagated, "interrupt" by the keyboard)
Iteration(src, byt, end) == [source_stats |-> src, bytecode_stats |-> byt, end |-> end]

SourceStat(contract_address, files_with_diffs) ==
    [contract_address |-> contract_address, files_with_diffs |-> files_with_diffs]

BytecodeStat(contract_address, match) ==
    [contract_address |-> contract_address, match |-> match]

\* the handler of the outer try of the loop body
on_custom_error(src, byt, policy) ==
    Iteration(src, byt, IF raise_exception_or_log(policy) THEN "error" ELSE "next")

\* variant: the error of the bytecode check is swallowed without a record
on_bytecode_error_unrecorded(src, byt, contract_address) ==
    Iteration(src, byt, "next")

\* the handler of the inner try, around run_bytecode_diff
on_bytecode_error(src, byt, contract_address) ==
    Iteration(src, Append(byt, BytecodeStat(contract_address, FALSE)), "next")

ExplorerOutcomes == {"ok", "custom_error", "other_error", "interrupt"}

SourceOutcomes == {"clean", "diff", "custom_error"}

BytecodeOutcomes == {"match", "mismatch", "custom_error", "other_error"}

\* files_with_diffs of a source_result
files_with_diffs(source_result) == IF source_result = "diff" THEN 1 ELSE 0

\* the bytecode part of the loop body, after the source part left src
bytecode_part(src, byt, contract_address, bytecode_result, enabled) ==
    IF ~enabled THEN Iteration(src, byt, "next")
    ELSE IF bytecode_result = "custom_error"
    THEN on_bytecode_error(src, byt, contract_address)
    ELSE IF bytecode_result = "other_error" THEN Iteration(src, byt, "error")
    ELSE Iteration(src, Append(byt, BytecodeStat(contract_address, bytecode_result = "match")),
                   "next")

\* the body of the for loop of process_config for one contract, given what
\* get_contract_from_explorer, run_source_diff and run_bytecode_diff do
loop_body(src, byt, contract_address, explorer_result, source_result, bytecode_result, source_enabled, binary_enabled, policy) ==
    IF explorer_result = "custom_error" THEN on_custom_error(src, byt, policy)
    ELSE IF explorer_result = "other_error" THEN Iteration(src, byt, "error")
    ELSE IF explorer_result = "interrupt" THEN Iteration(src, byt, "interrupt")
    ELSE IF source_enabled /\ source_result = "custom_error"
    THEN on_custom_error(src, byt, policy)
    ELSE LET src2 == IF source_enabled
                     THEN Append(src, SourceStat(contract_address,
                                                 files_with_diffs(source_result)))
                     ELSE src
         IN  bytecode_part(src2, byt, contract_address, bytecode_result, binary_enabled)

\* what the history keeps of an iteration: the stages that ran
Event(contract_address, explorer_result, source_result, bytecode_result, source_enabled, binary_enabled) ==
    LET source_ran == explorer_result = "ok" /\ source_enabled
        bytecode_ran == /\ explorer_result = "ok"
                        /\ binary_enabled
                        /\ (source_enabled => source_result # "custom_error")
    IN  [contract_address |-> contract_address,
         explorer |-> explorer_result,
         source |-> IF source_ran THEN source_result ELSE "skipped",
         bytecode |-> IF bytecode_ran THEN bytecode_result ELSE "skipped"]

Diff(contract_address, kind) == [contract_address |-> contract_address, kind |-> kind]

DiffsOf(event) ==
    (IF event.source = "diff"
     THEN {Diff(event.contract_address, "source")} ELSE {})
    \cup
    (IF event.bytecode \in {"mismatch", "custom_error"}
     THEN {Diff(event.contract_address, "bytecode")} ELSE {})

\* Hardhat.start: the process is set once Popen has run
StartOutcomes == {"chain_id_error", "start_error", "start_timeout", "interrupt",
                  "chain_id_mismatch", "ok"}

start(process, start_result) ==
    IF start_result \in {"chain_id_error", "start_error"} THEN process ELSE "running"

\* the stats under one key of all the results, each with its place
AllStats(results, field) ==
    UNION {{<<r, k>> : k \in 1..Len(results[r][field])} : r \in 1..Len(results)}

\* variant: the allow list is used as it was typed
allowed_addrs_as_given(allow_list) == allow_list

\* set(addr.lower() for addr in (allow_list or []))
allowed_addrs(allow_list) == {ToLower(addr) : addr \in allow_list}

\* the status main passes to sys.exit
exit_status(results, allow_source, allow_bytecode, binary_enabled) ==
    LET enable_source_comparison ==
            \E r \in 1..Len(results) : Len(results[r].source_stats) > 0
        allowed_source_addrs == allowed_addrs(allow_source)
        allowed_bytecode_addrs == allowed_addrs(allow_bytecode)
        SourceUnallowed(stat) ==
            /\ stat.files_with_diffs > 0
            /\ ToLower(stat.contract_address) \notin allowed_source_addrs
        BytecodeUnallowed(stat) ==
            /\ ~stat.match
            /\ ToLower(stat.contract_address) \notin allowed_bytecode_addrs
        unallowed_source_diffs ==
            IF enable_source_comparison
            THEN Cardinality({p \in AllStats(results, "source_stats") :
                     SourceUnallowed(results[p[1]].source_stats[p[2]])})
            ELSE 0
        unallowed_bytecode_diffs ==
            IF binary_enabled
            THEN Cardinality({p \in AllStats(results, "bytecode_stats") :
                     BytecodeUnallowed(results[p[1]].bytecode_stats[p[2]])})
            ELSE 0
        has_unallowed_diffs ==
            (unallowed_source_diffs > 0) \/ (unallowed_bytecode_diffs > 0)
    IN  IF has_unallowed_diffs THEN 1 ELSE 0

(***************************************************************************)
(* Specification of main() over its config files                           *)
(***************************************************************************)
MaxConfigs == 2

MaxContracts == 2

ConfigAddresses == {<<"0", "x", "A">>, <<"0", "x", "b">>}

\* values of --allow-source-diff and --allow-bytecode-diff
AllowLists == {{}, {<<"0", "x", "a">>}, {<<"0", "x", "B">>}}

\* config["contracts"]: the keys of a dict, in order
ContractLists ==
    {c \in UNION {[1..n -> ConfigAddresses] : n \in 0..MaxContracts} :
        \A k1, k2 \in 1..Len(c) : k1 # k2 => c[k1] # c[k2]}

Configs == [contracts : ContractLists, source_comparison : BOOLEAN,
            fail_on_bytecode_comparison_error : BOOLEAN]

InitBatch ==
    /\ ParseIdle
    /\ MatchIdle
    /\ MoreIdle
    /\ HostIdle
    /\ DepIdle
    /\ EncIdle
    /\ enable_binary_comparison \in BOOLEAN
    /\ config_paths \in 1..MaxConfigs
    /\ config_index = 0
    /\ loaded_config = NoConfig
    /\ raise_exception = TRUE
    /\ sub_process = None
    /\ contract_index = 0
    /\ source_stats = <<>>
    /\ bytecode_stats = <<>>
    /\ all_results = <<>>
    /\ allow_source_diff = {}
    /\ allow_bytecode_diff = {}
    /\ exit_code = None
    /\ main_pc = "main"
    /\ events = <<>>
    /\ start_attempted = FALSE
    /\ stop_calls = <<>>
    /\ exit_cause = None
    /\ seen_diffs = {}
    /\ policies = <<>>

BatchOthersUnchanged ==
    UNCHANGED <<parse_vars, match_vars, host_vars, dep_vars, enc_vars, more_vars>>

\* main calls process_config, which runs up to its try block
LoadConfig ==
    /\ main_pc = "main"
    /\ config_index < config_paths
    /\ \E loaded \in BOOLEAN : \E c \in Configs :
        /\ loaded_config' = IF loaded THEN c ELSE NoConfig
        /\ raise_exception' =
               IF loaded /\ enable_binary_comparison
               THEN c.fail_on_bytecode_comparison_error ELSE TRUE
        /\ policies' = Append(policies, raise_exception')
        /\ main_pc' = IF ~loaded THEN "crashed"
                      ELSE IF enable_binary_comparison THEN "start"
                      ELSE "contracts"
    /\ config_index' = config_index + 1
    /\ contract_index' = 0
    /\ source_stats' = <<>>
    /\ bytecode_stats' = <<>>
    /\ events' = <<>>
    /\ start_attempted' = FALSE
    /\ stop_calls' = <<>>
    /\ exit_cause' = None
    /\ UNCHANGED <<enable_binary_comparison, config_paths, sub_process, all_results,
                   allow_source_diff, allow_bytecode_diff, exit_code, seen_diffs>>
    /\ BatchOthersUnchanged

\* the chain ids and hardhat.start at the head of the try block
StartNode ==
    /\ main_pc = "start"
    /\ \E start_result \in StartOutcomes :
        /\ start_attempted' = (start_result # "chain_id_error")
        /\ sub_process' = start(sub_process, start_result)
        /\ main_pc' = IF start_result = "ok" THEN "contracts" ELSE "finally"
        /\ exit_cause' = IF start_result = "ok" THEN None
                         ELSE IF start_result = "interrupt" THEN "interrupt"
                         ELSE "error"
    /\ UNCHANGED <<enable_binary_comparison, config_paths, config_index,
                   loaded_config, raise_exception, contract_index, source_stats,
                   bytecode_stats, all_results, allow_source_diff,
                   allow_bytecode_diff, exit_code, events, stop_calls, seen_diffs,
                   policies>>
    /\ BatchOthersUnchanged

\* one iteration of the for loop over config["contracts"]
ProcessContract ==
    /\ main_pc = "contracts"
    /\ contract_index < Len(loaded_config.contracts)
    /\ \E explorer_result \in ExplorerOutcomes, source_result \in SourceOutcomes,
          bytecode_result \in BytecodeOutcomes :
        LET contract_address == loaded_config.contracts[contract_index + 1]
            done == loop_body(source_stats, bytecode_stats, contract_address,
                              explorer_result, source_result, bytecode_result,
                              loaded_config.source_comparison,
                              enable_binary_comparison, raise_exception)
            event == Event(contract_address, explorer_result, source_result, bytecode_result,
                           loaded_config.source_comparison,
                           enable_binary_comparison)
        IN  /\ source_stats' = done.source_stats
            /\ bytecode_stats' = done.bytecode_stats
            /\ main_pc' = IF done.end = "next" THEN "contracts" ELSE "finally"
            /\ exit_cause' = IF done.end = "next" THEN exit_cause ELSE done.end
            /\ events' = Append(events, event)
            /\ seen_diffs' = seen_diffs \cup DiffsOf(event)
    /\ contract_index' = contract_index + 1
    /\ UNCHANGED <<enable_binary_comparison, config_paths, config_index,
                   loaded_config, raise_exception, sub_process, all_results,
                   allow_source_diff, allow_bytecode_diff, exit_code,
                   start_attempted, stop_calls, policies>>
    /\ BatchOthersUnchanged

\* the finally block of process_config, then its return to main or the
\* propagation of the error
Finally ==
    /\ \/ main_pc = "finally"
       \/ main_pc = "contracts" /\ contract_index = Len(loaded_config.contracts)
    /\ LET cause == IF main_pc = "finally" THEN exit_cause ELSE "completed"
       IN  /\ exit_cause' = cause
           /\ IF cause \in {"completed", "interrupt"}
              THEN /\ all_results' =
                         Append(all_results, [source_stats |-> source_stats,
                                              bytecode_stats |-> bytecode_stats])
                   /\ main_pc' = "main"
              ELSE /\ all_results' = all_results
                   /\ main_pc' = "crashed"
    /\ IF enable_binary_comparison
       THEN \E terminated \in BOOLEAN :
               LET stopped == stop(sub_process, terminated)
               IN  /\ sub_process' = stopped.process
                   /\ stop_calls' =
                          Append(stop_calls, [before |-> sub_process,
                                              signalled |-> stopped.signalled,
                                              after |-> stopped.process])
       ELSE UNCHANGED <<sub_process, stop_calls>>
    /\ UNCHANGED <<enable_binary_comparison, config_paths, config_index,
                   loaded_config, raise_exception, contract_index, source_stats,
                   bytecode_stats, allow_source_diff, allow_bytecode_diff,
                   exit_code, events, start_attempted, seen_diffs, policies>>
    /\ BatchOthersUnchanged

\* the node process ends by itself
NodeExits ==
    /\ main_pc \in {"contracts", "finally"}
    /\ sub_process = "running"
    /\ sub_process' = "exited"
    /\ UNCHANGED <<enable_binary_comparison, config_paths, config_index,
                   loaded_config, raise_exception, contract_index, source_stats,
                   bytecode_stats, all_results, allow_source_diff,
                   allow_bytecode_diff, exit_code, main_pc>>
    /\ UNCHANGED history_vars
    /\ BatchOthersUnchanged

\* main after its loop: the summary and sys.exit
Summarize ==
    /\ main_pc = "main"
    /\ config_index = config_paths
    /\ \E allow_source \in AllowLists, allow_bytecode \in AllowLists :
        /\ allow_source_diff' = allow_source
        /\ allow_bytecode_diff' = allow_bytecode
        /\ exit_code' = exit_status(all_results, allow_source, allow_bytecode,
                                    enable_binary_comparison)
    /\ main_pc' = "exited"
    /\ UNCHANGED <<enable_binary_comparison, config_paths, config_index,
                   loaded_config, raise_exception, sub_process, contract_index,
                   source_stats, bytecode_stats, all_results>>
    /\ UNCHANGED history_vars
    /\ BatchOthersUnchanged

NextBatch ==
    \/ LoadConfig
    \/ StartNode
    \/ ProcessContract
    \/ Finally
    \/ NodeExits
    \/ Summarize

SpecBatch == InitBatch /\ [][NextBatch]_vars

(***************************************************************************)
(* Properties of the batch run                                             *)
(***************************************************************************)
IsHexChar(c) == \E v \in 1..16 : HexDigits[v] = c \/ UpperHexDigits[v] = c

\* two addresses that differ at most in the case of their hex digits
SameIgnoringCase(a, b) ==
    /\ Len(a) = Len(b)
    /\ \A k \in 1..Len(a) :
          \/ a[k] = b[k]
          \/ IsHexChar(a[k]) /\ IsHexChar(b[k]) /\ HexVal(a[k]) = HexVal(b[k])

Listed(contract_address, allow_list) ==
    \E a \in allow_list : SameIgnoringCase(a, contract_address)

\* a processed contract has a source difference or a bytecode mismatch or
\* failure, and its address is not in the allow list of that kind
UnallowedDiffSeen ==
    \E d \in seen_diffs :
        \/ d.kind = "source" /\ ~Listed(d.contract_address, allow_source_diff)
        \/ d.kind = "bytecode" /\ ~Listed(d.contract_address, allow_bytecode_diff)

StatsOf(contract_address) ==
    {j \in 1..Len(bytecode_stats) :
        bytecode_stats[j].contract_address = contract_address}

\* process_config has returned to main or let an error through
ConfigOver == main_pc \in {"main", "crashed", "exited"} /\ exit_cause # None

\* C13: a custom error raised by the bytecode check of a contract leaves
\* exactly one entry for that contract in bytecode_stats, with match False,
\* and does not end the loop: whatever the exception policy, the loop ends
\* early only through something that happens at a later contract.
C13_BytecodeErrorDoesNotAbort ==
    \A k \in 1..Len(events) :
        events[k].bytecode = "custom_error" =>
            /\ Cardinality(StatsOf(events[k].contract_address)) = 1
            /\ \A j \in StatsOf(events[k].contract_address) :
                  ~bytecode_stats[j].match
            /\ k = Len(events) => exit_cause \in {None, "completed"}
            /\ (ConfigOver /\ Len(events) < Len(loaded_config.contracts)) =>
                  (exit_cause \in {"error", "interrupt"} /\ Len(events) > k)

\* under the raising policy the contract after the failed one is processed
C13_Witness ==
    /\ main_pc = "main"
    /\ raise_exception
    /\ Len(events) = 2
    /\ events[1].bytecode = "custom_error"
    /\ events[2].bytecode = "match"
    /\ Len(bytecode_stats) = 2
    /\ ~bytecode_stats[1].match

\* C14: with binary comparison enabled, once hardhat.start has been called
\* process_config calls hardhat.stop exactly once before it returns or lets
\* an error through, however its try block ended; a stop that finds no
\* process, or a process that has exited, sends no signal and changes
\* nothing.
C14_StopOnEveryExitPath ==
    /\ (enable_binary_comparison /\ start_attempted /\ ConfigOver) =>
          Len(stop_calls) = 1
    /\ \A k \in 1..Len(stop_calls) :
          stop_calls[k].before \in {None, "exited"} =>
              /\ ~stop_calls[k].signalled
              /\ stop_calls[k].after = stop_calls[k].before

\* an error ends the try block after the node has exited by itself
C14_Witness ==
    /\ main_pc = "crashed"
    /\ exit_cause = "error"
    /\ start_attempted
    /\ Len(events) = 1
    /\ Len(stop_calls) = 1
    /\ stop_calls[1].before = "exited"
    /\ ~stop_calls[1].signalled

(***************************************************************************)
(* The defensive errors of to_match                                        *)
(***************************************************************************)
\* the index the running loop of to_match is about to visit, if any
VisitedIndex ==
    IF pc = "compare" /\ i < maxInstructionsCount THEN {i}
    ELSE IF pc = "render" /\ i < Len(checkpointsArray) THEN {checkpointsArray[i + 1]}
    ELSE {}

\* C24: neither 'Invalid instructions data' nor 'Invalid bytecode difference
\* data' is ever raised: every index the comparison loop or the render loop
\* visits has an instruction in at least one of the two streams
C24_DefensiveErrorsUnreachable ==
    /\ outcome # Raised("ValueError: Invalid instructions data")
    /\ outcome # Raised("ValueError: Invalid bytecode difference data")
    /\ \A k \in VisitedIndex : HasActual(k) \/ HasExpected(k)

\* a diff was rendered to its end for streams of different lengths, so both
\* loops visited an index that only one stream has
C24_Witness ==
    /\ pc = "done"
    /\ outcome = Returned(None)
    /\ Len(actualInstructions) < Len(expectedInstructions)
    /\ Len(rendered) = Len(checkpointsArray)
    /\ \E k \in 1..Len(rendered) : rendered[k].colour = "red"

(***************************************************************************)
(* to_match on bytecodes long enough for the display set to have gaps      *)
(***************************************************************************)
MaxLongLen == 10

MaxEdits == 2

\* ADD
BaseByte == 1

\* MUL
EditedByte == 2

\* runs of ADD in which at most MaxEdits instructions are replaced by MUL
LongCodes ==
    {b \in ByteSeqs({BaseByte, EditedByte}, MaxLongLen) :
        Cardinality({k \in 1..Len(b) : b[k] = EditedByte}) <= MaxEdits}

LongActualInputs == {<<"0", "x">> \o bytes_hex(b) : b \in LongCodes}

LongExpectedInputs == {<<"0", "x">> \o bytes_hex(b) : b \in ByteSeqs({BaseByte}, MaxLongLen)}

\* a call of to_match on a pair of long bytecodes
InitLong ==
    /\ ParseIdle
    /\ actualBytecode \in LongActualInputs
    /\ expectedBytecode \in LongExpectedInputs
    /\ immutables = EmptyDict
    /\ MatchLocals
    /\ pc = "start"
    /\ OthersIdle

SpecLong == InitLong /\ [][Next]_vars

\* the positions at which both streams have an instruction and the two differ
MismatchIndices ==
    {j \in 0..(maxInstructionsCount - 1) :
        /\ HasActual(j)
        /\ HasExpected(j)
        /\ actualInstructions[j + 1].bytecode # expectedInstructions[j + 1].bytecode}

\* index 0, every mismatch, the last index of each non-empty stream
BasePoints ==
    {0} \cup MismatchIndices
        \cup {Len(actualInstructions) - 1 : x \in {y \in {1} : Len(actualInstructions) > 0}}
        \cup {Len(expectedInstructions) - 1 : x \in {y \in {1} : Len(expectedInstructions) > 0}}

Distance(a, b) == IF a >= b THEN a - b ELSE b - a

\* the valid indices within nearLinesCount of a base point
NearBasePoints ==
    {j \in 0..(maxInstructionsCount - 1) :
        \E b \in BasePoints : Distance(j, b) <= nearLinesCount}

DisplayedIndices == {checkpointsArray[k] : k \in 1..Len(checkpointsArray)}

DiffRendered == pc = "render" \/ (pc = "done" /\ checkpointsArray # <<>>)

\* C22: when a diff is rendered the displayed indices are exactly the valid
\* indices within distance 3 of a base checkpoint (0, every mismatch, the last
\* index of each non-empty stream), the windows are taken around the base
\* checkpoints only, every mismatch is displayed, and the list is in
\* ascending order without repeats
C22_DisplaySetIsOneExpansion ==
    DiffRendered =>
        /\ DisplayedIndices = NearBasePoints
        /\ checkpoints = NearBasePoints
        /\ MismatchIndices \subseteq DisplayedIndices
        /\ \A k \in 1..(Len(checkpointsArray) - 1) :
               checkpointsArray[k] < checkpointsArray[k + 1]

\* a diff was rendered whose display set leaves out an index that lies within
\* distance 3 of a displayed index but not of a base checkpoint
C22_Witness ==
    /\ pc = "done"
    /\ outcome = Returned(None)
    /\ MismatchIndices # {}
    /\ \E j \in 0..(maxInstructionsCount - 1) :
           /\ j \notin DisplayedIndices
           /\ \E d \in DisplayedIndices : Distance(j, d) <= nearLinesCount

\* the rendered line at position k follows a gap in the displayed indices
FollowsGap(k) == k > 1 /\ rendered[k].index # rendered[k - 1].index + 1

\* C23: an ellipsis is printed before a displayed instruction exactly when its
\* index is not the successor of the index displayed before it; the first
\* displayed instruction has no ellipsis.  No displayed index follows index 0
\* across a gap, since index 1 is displayed whenever it exists
C23_EllipsisIffGap ==
    /\ \A k \in 1..Len(rendered) : rendered[k].ellipsis <=> FollowsGap(k)
    /\ \A k \in 2..Len(rendered) : rendered[k - 1].index = 0 => rendered[k].index = 1

\* a diff was rendered to its end with an ellipsis before one of its lines
C23_Witness ==
    /\ pc = "done"
    /\ outcome = Returned(None)
    /\ \E k \in 2..Len(rendered) : rendered[k].ellipsis /\ FollowsGap(k)
    /\ \E k \in 2..Len(rendered) : ~rendered[k].ellipsis /\ rendered[k - 1].index = 0

(***************************************************************************)
(* to_match with the two calls of parse taken one loop iteration at a time *)
(***************************************************************************)
\* buffer = bytes.fromhex(bytecode[2:] if bytecode.startswith('0x') else bytecode)
buffer == bytes_fromhex(StripPrefix(bytecode))

\* the frame of a call parse(arg) before its loop starts
EnterParse(arg) ==
    /\ bytecode' = arg
    /\ instructions' = <<>>
    /\ parse_i' = 0
    /\ parse_pc' = "loop"

UnchangedByParse ==
    UNCHANGED <<actualBytecode, expectedBytecode, immutables, actualInstructions,
                expectedInstructions, i, differences, checkpoints, checkpointsArray,
                rendered, log, outcome, pc>>

\* to_match, line 224: parse(actualBytecode) is called
CallParseActual ==
    /\ pc = "start"
    /\ EnterParse(actualBytecode)
    /\ pc' = "parse_actual"
    /\ UNCHANGED <<actualBytecode, expectedBytecode, immutables, actualInstructions,
                   expectedInstructions, i, differences, checkpoints, checkpointsArray,
                   rendered, log, outcome>>
    /\ UNCHANGED other_vars

\* parse, lines 317-325: one iteration of the while loop
ParseStep ==
    /\ parse_pc = "loop"
    /\ parse_i < Len(buffer)
    /\ LET ins == DecodeAt(buffer, parse_i)
       IN  /\ instructions' = Append(instructions, ins)
           /\ parse_i' = NextPosition(parse_i, ins.length)
    /\ UNCHANGED <<bytecode, parse_pc>>
    /\ UnchangedByParse
    /\ UNCHANGED other_vars

\* parse, line 326: the loop is over, return instructions
ParseReturn ==
    /\ parse_pc = "loop"
    /\ ~(parse_i < Len(buffer))
    /\ parse_pc' = "returned"
    /\ UNCHANGED <<bytecode, instructions, parse_i>>
    /\ UnchangedByParse
    /\ UNCHANGED other_vars

\* to_match, lines 224-225: the first list is bound, parse(expectedBytecode) is called
CallParseExpected ==
    /\ pc = "parse_actual"
    /\ parse_pc = "returned"
    /\ actualInstructions' = instructions
    /\ EnterParse(expectedBytecode)
    /\ pc' = "parse_expected"
    /\ UNCHANGED <<actualBytecode, expectedBytecode, immutables, expectedInstructions,
                   i, differences, checkpoints, checkpointsArray, rendered, log, outcome>>
    /\ UNCHANGED other_vars

\* to_match, lines 225-229: the second list is bound and the comparison loop starts
StartCompare ==
    /\ pc = "parse_expected"
    /\ parse_pc = "returned"
    /\ expectedInstructions' = instructions
    /\ i' = 0
    /\ pc' = "compare"
    /\ UNCHANGED <<actualBytecode, expectedBytecode, immutables, actualInstructions,
                   differences, checkpoints, checkpointsArray, rendered, log, outcome>>
    /\ UNCHANGED parse_vars
    /\ UNCHANGED other_vars

InitSteps ==
    /\ ParseIdle
    /\ actualBytecode \in MatchInputs
    /\ expectedBytecode \in MatchInputs
    /\ immutables = EmptyDict
    /\ MatchLocals
    /\ pc = "start"
    /\ OthersIdle

NextSteps ==
    \/ CallParseActual
    \/ ParseStep
    \/ ParseReturn
    \/ CallParseExpected
    \/ StartCompare
    \/ CompareStep
    \/ CompareEnd
    \/ BuildCheckpoints
    \/ RenderStep
    \/ RenderEnd

\* the interpreter runs one thread: a statement that can run does run
SpecSteps == InitSteps /\ [][NextSteps]_vars /\ WF_vars(NextSteps)

\* strictly ascending
Ascending(seq) == \A k \in 1..(Len(seq) - 1) : seq[k] < seq[k + 1]

ByteCount(s) == Len(StripPrefix(s)) \div 2

\* what the decoder and the loops have done so far is within the size of the input
C25_WorkBounded ==
    /\ Len(instructions) <= Min(parse_i, Len(buffer))
    /\ \A k \in 1..Len(instructions) : instructions[k].length >= 1
    /\ Ascending([k \in 1..Len(instructions) |-> instructions[k].start])
    /\ Len(actualInstructions) <= ByteCount(actualBytecode)
    /\ Len(expectedInstructions) <= ByteCount(expectedBytecode)
    /\ pc = "compare" => i <= maxInstructionsCount
    /\ Ascending(differences)
    /\ Len(differences) <= maxInstructionsCount
    /\ pc = "render" => i <= Len(checkpointsArray)
    /\ Ascending([k \in 1..Len(rendered) |-> rendered[k].index])
    /\ Len(rendered) <= maxInstructionsCount

\* every iteration of a loop moves on: the decoder by at least one byte,
\* the comparison and render loops by one index
C25_LoopsAdvance ==
    /\ (parse_pc = "loop" /\ instructions' # instructions) => parse_i' >= parse_i + 1
    /\ (pc = "compare" /\ pc' = "compare") => i' = i + 1
    /\ (pc = "render" /\ pc' = "render") => i' = i + 1

\* C25: decoding and comparison terminate on every input: each decoder
\* step advances the read position by at least one byte, the decoder emits at
\* most one instruction per input byte, the comparison and render loops visit
\* each index at most once, and to_match reaches its end
C25_DecodeAndCompareTerminate ==
    /\ []C25_WorkBounded
    /\ [][C25_LoopsAdvance]_vars
    /\ <>(pc = "done")

\* a diff was rendered to its end after decoding an instruction with operands
C25_Witness ==
    /\ pc = "done"
    /\ outcome = Returned(None)
    /\ rendered # <<>>
    /\ parse_pc = "returned"
    /\ \E k \in 1..Len(actualInstructions) : actualInstructions[k].length > 1
    /\ Len(actualInstructions) < ByteCount(actualBytecode)

\* the decoder taken step by step builds the lists parse returns
StepsAgreeWithParse ==
    pc \in {"compare", "checkpoints", "render", "done"} =>
        /\ actualInstructions = parse(actualBytecode)
        /\ expectedInstructions = parse(expectedBytecode)

(***************************************************************************)
(* load_config(path)  (src/diffyscan/utils/common.py)                      *)
(***************************************************************************)
\* the nodes of a document: a scalar as written (quoted or plain), a mapping
\* with its entries in file order, the empty document, and "no such entry"
Scalar(text, quoted) == [k |-> "scalar", text |-> text, quoted |-> quoted, entries |-> <<>>]

Mapping(entries) == [k |-> "map", text |-> <<>>, quoted |-> FALSE, entries |-> entries]

EmptyDocument == [k |-> "empty", text |-> <<>>, quoted |-> FALSE, entries |-> <<>>]

Absent == [k |-> "absent", text |-> <<>>, quoted |-> FALSE, entries |-> <<>>]

\* Python values: None, str, int, bool and dict (items in insertion order)
PyNone == [t |-> "none", n |-> 0, s |-> <<>>, d |-> <<>>]

PyStr(s) == [t |-> "str", n |-> 0, s |-> s, d |-> <<>>]

PyInt(n) == [t |-> "int", n |-> n, s |-> <<>>, d |-> <<>>]

PyBool(b) == [t |-> "bool", n |-> IF b THEN 1 ELSE 0, s |-> <<>>, d |-> <<>>]

PyDict(d) == [t |-> "dict", n |-> 0, s |-> <<>>, d |-> d]

Chars(str) ==
    CASE str = "contracts" -> <<"c", "o", "n", "t", "r", "a", "c", "t", "s">>
      [] str = "bytecode_comparison" ->
             <<"b", "y", "t", "e", "c", "o", "d", "e", "_",
               "c", "o", "m", "p", "a", "r", "i", "s", "o", "n">>
      [] str = "constructor_args" ->
             <<"c", "o", "n", "s", "t", "r", "u", "c", "t", "o", "r", "_", "a", "r", "g", "s">>
      [] str = "constructor_calldata" ->
             <<"c", "o", "n", "s", "t", "r", "u", "c", "t", "o", "r", "_",
               "c", "a", "l", "l", "d", "a", "t", "a">>
      [] str = "libraries" -> <<"l", "i", "b", "r", "a", "r", "i", "e", "s">>
      [] str = "true" -> <<"t", "r", "u", "e">>
      [] str = "false" -> <<"f", "a", "l", "s", "e">>
      [] str = ".yaml" -> <<".", "y", "a", "m", "l">>
      [] str = ".yml" -> <<".", "y", "m", "l">>
      [] str = ".json" -> <<".", "j", "s", "o", "n">>

DecimalDigits == <<"0", "1", "2", "3", "4", "5", "6", "7", "8", "9">>

IsDecimalChar(c) == \E v \in 1..10 : DecimalDigits[v] = c

\* the plain scalar is a base-16 integer of YAML 1.1: 0x and hex digits
IsHexLiteral(text) ==
    /\ Len(text) > 2
    /\ text[1] = "0"
    /\ text[2] = "x"
    /\ \A k \in 3..Len(text) :
           \E v \in 1..16 : HexDigits[v] = text[k] \/ UpperHexDigits[v] = text[k]

\* the plain scalar is a base-10 integer of YAML 1.1: 0, or digits not led by 0
IsDecimalLiteral(text) ==
    /\ Len(text) > 0
    /\ \A k \in 1..Len(text) : IsDecimalChar(text[k])
    /\ Len(text) = 1 \/ text[1] # "0"

RECURSIVE DigitsValue(_, _)
\* the value of a string of digits in the given base
DigitsValue(digits, base) ==
    IF digits = <<>> THEN 0
    ELSE base * DigitsValue(SubSeq(digits, 1, Len(digits) - 1), base)
             + HexVal(digits[Len(digits)])

\* the implicit resolver of yaml.safe_load: a quoted scalar is a str, a plain
\* one is a bool or an int when it has that form
resolve_scalar(text, quoted) ==
    IF quoted THEN PyStr(text)
    ELSE IF text = Chars("true") THEN PyBool(TRUE)
    ELSE IF text = Chars("false") THEN PyBool(FALSE)
    ELSE IF IsHexLiteral(text) THEN PyInt(DigitsValue(SubSeq(text, 3, Len(text)), 16))
    ELSE IF IsDecimalLiteral(text) THEN PyInt(DigitsValue(text, 10))
    ELSE PyStr(text)

RECURSIVE dict_set(_, _, _)
\* d[key] = value: a key already present keeps its place
dict_set(d, key, value) ==
    IF d = <<>> THEN <<<<key, value>>>>
    ELSE IF d[1][1] = key THEN <<<<key, value>>>> \o Tail(d)
    ELSE <<d[1]>> \o dict_set(Tail(d), key, value)

\* d.get(key) on the items of a dict, for a str key
py_get(d, key) ==
    IF \E k \in 1..Len(d) : d[k][1] = PyStr(Chars(key))
    THEN d[CHOOSE k \in 1..Len(d) : d[k][1] = PyStr(Chars(key))][2]
    ELSE PyNone

RECURSIVE safe_load(_)
RECURSIVE construct_mapping(_, _)
\* the dict built from the entries of a mapping node, in file order
construct_mapping(entries, acc) ==
    IF entries = <<>> THEN acc
    ELSE construct_mapping(Tail(entries),
                           dict_set(acc, safe_load(entries[1][1]), safe_load(entries[1][2])))

\* yaml.safe_load(config_file)
safe_load(node) ==
    IF node.k = "scalar" THEN resolve_scalar(node.text, node.quoted)
    ELSE IF node.k = "map" THEN PyDict(construct_mapping(node.entries, <<>>))
    ELSE PyNone

\* isinstance(x, int): bool is a subclass of int
isinstance_int(x) == x.t \in {"int", "bool"}

isinstance_dict(x) == x.t = "dict"

NoError == "None"

RECURSIVE contracts_error(_)
\* lines 72-82: the first integer key or value among the items of contracts
contracts_error(items) ==
    IF items = <<>> THEN NoError
    ELSE IF isinstance_int(items[1][1])
    THEN "ValueError: contract address was parsed as integer"
    ELSE IF isinstance_int(items[1][2])
    THEN "ValueError: contract name was parsed as integer"
    ELSE contracts_error(Tail(items))

\* lines 88-95: an integer key of bytecode_comparison[section]
section_error(config_bytecode, section) ==
    LET sub == py_get(config_bytecode.d, section)
    IN  IF isinstance_dict(sub) /\ \E k \in 1..Len(sub.d) : isinstance_int(sub.d[k][1])
        THEN "ValueError: bytecode_comparison address was parsed as integer"
        ELSE NoError

\* variant: the libraries are not looked at
libraries_unchecked(config_bytecode) == NoError

\* lines 96-105: an integer address in a dict of bytecode_comparison.libraries
libraries_error(config_bytecode) ==
    LET libraries == py_get(config_bytecode.d, "libraries")
    IN  IF /\ isinstance_dict(libraries)
           /\ \E k \in 1..Len(libraries.d) :
                  /\ isinstance_dict(libraries.d[k][2])
                  /\ \E j \in 1..Len(libraries.d[k][2].d) :
                         isinstance_int(libraries.d[k][2].d[j][2])
        THEN "ValueError: bytecode_comparison.libraries was parsed as integer"
        ELSE NoError

\* the first of the given errors that is one
FirstError(errors) ==
    IF \E k \in 1..Len(errors) : errors[k] # NoError
    THEN errors[CHOOSE k \in 1..Len(errors) :
                    errors[k] # NoError /\ \A j \in 1..(k - 1) : errors[j] = NoError]
    ELSE NoError

\* _validate_yaml_hex_keys(config, path): the error it raises, if any
validate_yaml_hex_keys(config) ==
    LET contracts == py_get(config.d, "contracts")
        config_bytecode == py_get(config.d, "bytecode_comparison")
    IN  FirstError(<<IF isinstance_dict(contracts)
                     THEN contracts_error(contracts.d) ELSE NoError,
                     IF isinstance_dict(config_bytecode)
                     THEN FirstError(<<section_error(config_bytecode, "constructor_args"),
                                       section_error(config_bytecode, "constructor_calldata"),
                                       libraries_error(config_bytecode)>>)
                     ELSE NoError>>)

LowerLetters == <<"a", "b", "c", "d", "e", "f", "g", "h", "i", "j", "k", "l", "m",
                  "n", "o", "p", "q", "r", "s", "t", "u", "v", "w", "x", "y", "z">>

UpperLetters == <<"A", "B", "C", "D", "E", "F", "G", "H", "I", "J", "K", "L", "M",
                  "N", "O", "P", "Q", "R", "S", "T", "U", "V", "W", "X", "Y", "Z">>

\* str.lower()
str_lower(str) ==
    [k \in 1..Len(str) |->
        IF \E v \in 1..26 : UpperLetters[v] = str[k]
        THEN LowerLetters[CHOOSE v \in 1..26 : UpperLetters[v] = str[k]]
        ELSE str[k]]

\* os.path.splitext(path)[1] for a file name without directories: from the
\* last dot on, unless the name has no dot or only leading ones
splitext_ext(path) ==
    LET dots == {k \in 1..Len(path) : path[k] = "."}
        last == CHOOSE k \in dots : \A j \in dots : j <= k
    IN  IF dots = {} \/ \A k \in 1..(last - 1) : path[k] = "."
        THEN <<>>
        ELSE SubSeq(path, last, Len(path))

\* the document is one json.load accepts: string keys, no hexadecimal numbers
RECURSIVE ValidJson(_)
ValidJson(node) ==
    IF node.k = "scalar"
    THEN node.quoted \/ IsDecimalLiteral(node.text)
                     \/ node.text \in {Chars("true"), Chars("false")}
    ELSE /\ node.k = "map"
         /\ \A k \in 1..Len(node.entries) :
                /\ node.entries[k][1].k = "scalar"
                /\ node.entries[k][1].quoted
                /\ ValidJson(node.entries[k][2])

ConfigReturned(config) == [kind |-> "return", value |-> config]

ConfigRaised(e) == [kind |-> "raise", value |-> PyStr(<<e>>)]

\* load_config(path), with file the document stored at path
load_config(path, file) ==
    LET ext == str_lower(splitext_ext(path))
    IN  IF ext \in {Chars(".yaml"), Chars(".yml")}
        THEN LET config == safe_load(file)
             IN  IF config = PyNone
                 THEN ConfigRaised("ValueError: YAML file is empty or contains only comments")
                 ELSE IF ~isinstance_dict(config)
                 THEN ConfigRaised("AttributeError: object has no attribute 'get'")
                 ELSE IF validate_yaml_hex_keys(config) # NoError
                 THEN ConfigRaised(validate_yaml_hex_keys(config))
                 ELSE ConfigReturned(config)
        ELSE IF ext = Chars(".json")
        THEN IF ValidJson(file)
             THEN ConfigReturned(safe_load(file))
             ELSE ConfigRaised("JSONDecodeError")
        ELSE ConfigRaised("ValueError: Unsupported config file extension")

MaxEntries == 1

\* stands for a 20-byte address written in hexadecimal
AddressText == <<"0", "x", "A", "B">>

NameText == <<"N", "a", "m", "e">>

KeyTokens == {Scalar(AddressText, TRUE), Scalar(AddressText, FALSE), Scalar(NameText, FALSE)}

ValueTokens ==
    {Scalar(NameText, FALSE), Scalar(<<"1", "2">>, FALSE), Scalar(AddressText, TRUE),
     Scalar(AddressText, FALSE), Scalar(Chars("true"), FALSE)}

\* a key of the config file, as it is written there
KeyNode(name) == Scalar(Chars(name), TRUE)

\* sequences of at most n entries with pairwise different keys
EntryLists(keys, values, n) ==
    {e \in UNION {[1..k -> keys \X values] : k \in 0..n} :
        \A a, b \in 1..Len(e) : a # b => e[a][1] # e[b][1]}

ContractsNodes ==
    {Absent, Scalar(NameText, FALSE)}
        \cup {Mapping(e) : e \in EntryLists(KeyTokens, ValueTokens, MaxEntries)}

SectionNodes ==
    {Absent, Scalar(NameText, FALSE)}
        \cup {Mapping(<<<<key, Scalar(NameText, FALSE)>>>>) : key \in KeyTokens}

LibraryNodes ==
    {Absent, Mapping(<<<<Scalar(NameText, TRUE), Scalar(NameText, FALSE)>>>>)}
        \cup {Mapping(<<<<Scalar(NameText, TRUE), Mapping(<<<<Scalar(NameText, FALSE), v>>>>)>>>>) :
                 v \in ValueTokens}

\* the entry for name, when the file has one
Entry(name, node) == IF node = Absent THEN <<>> ELSE <<<<KeyNode(name), node>>>>

BytecodeComparisonNodes ==
    {Absent, Scalar(NameText, FALSE)}
        \cup {Mapping(Entry("constructor_args", a) \o Entry("constructor_calldata", c)
                          \o Entry("libraries", l)) :
                 a \in SectionNodes, c \in SectionNodes, l \in LibraryNodes}

ConfigFiles ==
    {EmptyDocument}
        \cup {Mapping(Entry("contracts", c) \o Entry("bytecode_comparison", b)) :
                 c \in ContractsNodes, b \in BytecodeComparisonNodes}

ConfigPaths ==
    {<<"c">> \o Chars(".yaml"), <<"c", ".", "Y", "M", "L">>, <<"c">> \o Chars(".json"),
     <<"c", ".", "t", "x", "t">>}

InitLoadConfig ==
    /\ ParseIdle
    /\ MatchIdle
    /\ HostIdle
    /\ DepIdle
    /\ EncIdle
    /\ BatchIdle
    /\ CdIdle
    /\ BdIdle
    /\ LastIdle
    /\ cfg_path \in ConfigPaths
    /\ cfg_file \in ConfigFiles
    /\ cfg_result = None
    /\ cfg_pc = "called"

LoadConfigCall ==
    /\ cfg_pc = "called"
    /\ cfg_result' = load_config(cfg_path, cfg_file)
    /\ cfg_pc' = "returned"
    /\ UNCHANGED <<cfg_path, cfg_file>>
    /\ UNCHANGED <<parse_vars, match_vars, host_vars, dep_vars, enc_vars, batch_vars,
                   history_vars, cd_vars, bd_vars, last_vars>>

NextLoadConfig == LoadConfigCall

SpecLoadConfig == InitLoadConfig /\ [][NextLoadConfig]_vars

\* the file is YAML by its extension
IsYamlPath == str_lower(splitext_ext(cfg_path)) \in {Chars(".yaml"), Chars(".yml")}

\* the value the file has under the given keys, None when a key is missing
\* or met in something that is not a dict
RECURSIVE Lookup(_, _)
Lookup(value, keys) ==
    IF keys = <<>> THEN value
    ELSE IF value.t = "dict" THEN Lookup(py_get(value.d, keys[1]), Tail(keys))
    ELSE PyNone

DictKeys(value) == IF value.t = "dict" THEN {value.d[k][1] : k \in 1..Len(value.d)} ELSE {}

DictValues(value) == IF value.t = "dict" THEN {value.d[k][2] : k \in 1..Len(value.d)} ELSE {}

\* the keys and values of the loaded document in which an address or a name
\* is expected
AddressSlots(config) ==
    DictKeys(Lookup(config, <<"contracts">>))
        \cup DictValues(Lookup(config, <<"contracts">>))
        \cup DictKeys(Lookup(config, <<"bytecode_comparison", "constructor_args">>))
        \cup DictKeys(Lookup(config, <<"bytecode_comparison", "constructor_calldata">>))
        \cup UNION {DictValues(libs) :
                       libs \in DictValues(Lookup(config, <<"bytecode_comparison", "libraries">>))}

\* the errors _validate_yaml_hex_keys raises
ParsedAsInteger ==
    {ConfigRaised("ValueError: contract address was parsed as integer"),
     ConfigRaised("ValueError: contract name was parsed as integer"),
     ConfigRaised("ValueError: bytecode_comparison address was parsed as integer"),
     ConfigRaised("ValueError: bytecode_comparison.libraries was parsed as integer")}

\* C21: loading a YAML config raises ValueError when a key or value of
\* contracts, a key of bytecode_comparison.constructor_args or
\* constructor_calldata, or a library address of bytecode_comparison.libraries
\* is an integer; when all of them are strings the loaded config is returned
\* as it was read
C21_CoercedHexRaises ==
    (cfg_pc = "returned" /\ IsYamlPath /\ safe_load(cfg_file).t = "dict") =>
        LET config == safe_load(cfg_file)
        IN  /\ (\E x \in AddressSlots(config) : x.t = "int") => cfg_result \in ParsedAsInteger
            /\ (\A x \in AddressSlots(config) : x.t = "str") => cfg_result = ConfigReturned(config)

\* a YAML file whose only unquoted address is a library address was refused
C21_Witness ==
    /\ cfg_pc = "returned"
    /\ IsYamlPath
    /\ cfg_result \in ParsedAsInteger
    /\ LET config == safe_load(cfg_file)
       IN  /\ DictKeys(Lookup(config, <<"contracts">>)) # {}
           /\ \E libs \in DictValues(Lookup(config, <<"bytecode_comparison", "libraries">>)) :
                  PyInt(171) \in DictValues(libs)
           /\ \A x \in AddressSlots(config) : x.t = "int" => x = PyInt(171)
           /\ \A x \in DictKeys(Lookup(config, <<"contracts">>))
                       \cup DictValues(Lookup(config, <<"contracts">>)) : x.t = "str"

(***************************************************************************)
(* get_calldata(address, compiled_contract, binary_config)                 *)
(* (src/diffyscan/utils/calldata.py)                                       *)
(***************************************************************************)
AbiSome(inputs) == [some |-> TRUE, inputs |-> inputs]

AbiEntry(type, inputs) == [type |-> type, inputs |-> inputs]

\* [entry["inputs"] for entry in abi if entry["type"] == "constructor"]
ConstructorInputs(abi) ==
    LET at == {k \in 1..Len(abi) : abi[k].type = "constructor"}
    IN  IF at = {} THEN <<>>
        ELSE <<abi[CHOOSE k \in at : \A j \in at : k <= j].inputs>>

\* get_constructor_abi(target_compiled_contract)
get_constructor_abi(abi) ==
    IF ConstructorInputs(abi) = <<>> THEN AbiNone
    ELSE IF Len(ConstructorInputs(abi)[1]) > 0 THEN AbiSome(ConstructorInputs(abi)[1])
    ELSE AbiNone

CalldataReturned(v) == [kind |-> "return", value |-> v, err |-> ""]

CalldataRaised(e) == [kind |-> "raise", value |-> <<>>, err |-> e]

\* section in binary_config and contract_address in binary_config[section]
in_section(contract_address, binary_config, section) ==
    /\ section \in DOMAIN binary_config
    /\ contract_address \in DOMAIN binary_config[section]

Checked(has_raw, has_args) == [has_raw |-> has_raw, has_args |-> has_args, err |-> ""]

CheckFailed(e) == [has_raw |-> FALSE, has_args |-> FALSE, err |-> e]

\* variant: an address given both ways is taken as raw calldata
check_calldata_config_raw_first(contract_address, binary_config) ==
    LET has_raw == in_section(contract_address, binary_config, "constructor_calldata")
        has_args == in_section(contract_address, binary_config, "constructor_args")
    IN  IF ~has_raw /\ ~has_args
        THEN CheckFailed("CalldataError: not found in 'constructor_args' or 'constructor_calldata'")
        ELSE Checked(has_raw, has_args)

\* _check_calldata_config(contract_address, binary_config)
check_calldata_config(contract_address, binary_config) ==
    LET has_raw == in_section(contract_address, binary_config, "constructor_calldata")
        has_args == in_section(contract_address, binary_config, "constructor_args")
    IN  IF has_raw /\ has_args
        THEN CheckFailed("CalldataError: found in both 'constructor_args' and 'constructor_calldata'")
        ELSE IF ~has_raw /\ ~has_args
        THEN CheckFailed("CalldataError: not found in 'constructor_args' or 'constructor_calldata'")
        ELSE Checked(has_raw, has_args)

\* get_raw_calldata_from_config(contract_address_from_config, binary_config)
get_raw_calldata_from_config(contract_address, binary_config) ==
    binary_config["constructor_calldata"][contract_address]

\* parse_calldata_from_config(contract_address_from_config, constructor_args, constructor_abi)
parse_calldata_from_config(contract_address, constructor_args, constructor_abi) ==
    LET constructor_config_args == constructor_args[contract_address]
        encoded == encode_constructor_arguments(constructor_abi.inputs, constructor_config_args)
    IN  IF ~constructor_abi.some
        THEN IF Len(constructor_config_args) > 0
             THEN CalldataRaised("CalldataError: Constructor args provided for contract without constructor")
             ELSE CalldataReturned(<<>>)
        ELSE IF ~encoded.ok THEN CalldataRaised("EncoderError")
        ELSE IF encoded.calldata = <<>> THEN CalldataRaised("CalldataError: Contract calldata is empty")
        ELSE CalldataReturned(encoded.calldata)

\* get_calldata, lines 67-73: the constructor is looked up in the ABI
GetConstructorAbi ==
    /\ cd_pc = "called"
    /\ cd_constructor_abi' = get_constructor_abi(cd_abi)
    /\ IF get_constructor_abi(cd_abi) = AbiNone
       THEN /\ cd_result' = CalldataReturned(NoneName)
            /\ cd_pc' = "returned"
       ELSE /\ cd_pc' = "check"
            /\ UNCHANGED cd_result
    /\ UNCHANGED <<cd_address, cd_abi, cd_config, cd_consulted>>
    /\ UNCHANGED <<parse_vars, match_vars, host_vars, dep_vars, enc_vars, batch_vars,
                   history_vars, cfg_vars, bd_vars, last_vars>>

\* get_calldata, lines 77-89: the config is checked and the calldata taken from it
TakeCalldata ==
    /\ cd_pc = "check"
    /\ cd_consulted' = TRUE
    /\ LET checked == check_calldata_config(cd_address, cd_config)
       IN  cd_result' =
               IF checked.err # "" THEN CalldataRaised(checked.err)
               ELSE IF checked.has_raw
               THEN CalldataReturned(get_raw_calldata_from_config(cd_address, cd_config))
               ELSE parse_calldata_from_config(cd_address, cd_config["constructor_args"],
                                               cd_constructor_abi)
    /\ cd_pc' = "returned"
    /\ UNCHANGED <<cd_address, cd_abi, cd_config, cd_constructor_abi>>
    /\ UNCHANGED <<parse_vars, match_vars, host_vars, dep_vars, enc_vars, batch_vars,
                   history_vars, cfg_vars, bd_vars, last_vars>>

MaxCalldataArgs == 2

CalldataAddresses == {"0xA", "0xB"}

RawCalldata == {<<"0", "x", "1", "2">>, <<>>}

\* the (type, value) pairs a constructor argument is drawn from
CalldataArgChoices ==
    {Arg(Uint256, IntV(5)),
     Arg(Bytes, StrV(<<"0", "x", "1", "0">>)),
     Arg(Foo, IntV(1)),
     Arg(TupleOf(<<>>), ListV(<<>>))}

CalldataArgLists == UNION {[1..n -> CalldataArgChoices] : n \in 1..MaxCalldataArgs}

\* the same value under every address of a subset, or no section at all
Sections(value) == {[a \in D |-> value] : D \in SUBSET CalldataAddresses}

\* binary_config with the given sections; an empty tuple stands for a missing one
BinaryConfig(calldata_section, args_section) ==
    [name \in {n \in {"constructor_calldata"} : calldata_section # <<>>}
                 \cup {n \in {"constructor_args"} : args_section # <<>>} |->
        IF name = "constructor_calldata" THEN calldata_section[1] ELSE args_section[1]]

InitCalldata ==
    /\ ParseIdle
    /\ MatchIdle
    /\ HostIdle
    /\ DepIdle
    /\ EncIdle
    /\ BatchIdle
    /\ CfgIdle
    /\ BdIdle
    /\ LastIdle
    /\ cd_address \in CalldataAddresses
    /\ \E a \in CalldataArgLists \cup {<<>>} :
       \E given \in {Len(a), Max(Len(a) - 1, 0)} :
       \E raw \in RawCalldata :
       \E calldata_section \in {<<>>} \cup {<<sec>> : sec \in Sections(raw)} :
       \E args_section \in {<<>>}
               \cup {<<sec>> : sec \in Sections([k \in 1..given |-> a[k].value])} :
          /\ cd_abi \in {<<>>,
                         <<AbiEntry("function", <<Uint256>>)>>,
                         <<AbiEntry("constructor", [k \in 1..Len(a) |-> a[k].type])>>,
                         <<AbiEntry("function", <<>>),
                           AbiEntry("constructor", [k \in 1..Len(a) |-> a[k].type])>>}
          /\ cd_config = BinaryConfig(calldata_section, args_section)
    /\ cd_constructor_abi = AbiNone
    /\ cd_result = NoCalldata
    /\ cd_pc = "called"
    /\ cd_consulted = FALSE

NextCalldata == GetConstructorAbi \/ TakeCalldata

SpecCalldata == InitCalldata /\ [][NextCalldata]_vars

\* the ABI has a constructor entry with at least one input
HasConstructorWithInputs ==
    \E k \in 1..Len(cd_abi) : cd_abi[k].type = "constructor" /\ Len(cd_abi[k].inputs) > 0

\* the inputs of the constructor entry
DeclaredInputs == cd_abi[CHOOSE k \in 1..Len(cd_abi) : cd_abi[k].type = "constructor"].inputs

InCalldataSection ==
    "constructor_calldata" \in DOMAIN cd_config
        /\ cd_address \in DOMAIN cd_config["constructor_calldata"]

InArgsSection ==
    "constructor_args" \in DOMAIN cd_config /\ cd_address \in DOMAIN cd_config["constructor_args"]

CalldataErrors ==
    {CalldataRaised("CalldataError: found in both 'constructor_args' and 'constructor_calldata'"),
     CalldataRaised("CalldataError: not found in 'constructor_args' or 'constructor_calldata'")}

missing_of(github) == SelectSeq([k \in 1..Len(github) |-> k], LAMBDA k : github[k] \in {None, ""})

\* variant: the two bytecodes are never taken as equal
never_matched(local_bytecode, remote_bytecode) == FALSE

\* is_fully_matched = local_..._bytecode == remote_deployed_bytecode
is_fully_matched(local_bytecode, remote_bytecode) == local_bytecode = remote_bytecode

DiffReturned(v) == [kind |-> "return", value |-> v, err |-> ""]

DiffRaised(e) == [kind |-> "raise", value |-> FALSE, err |-> e]

Bytecodes == {"0x6001", "0x6002", "0x6003"}

BdUnchanged ==
    UNCHANGED <<parse_vars, match_vars, host_vars, dep_vars, enc_vars, batch_vars,
                history_vars, cfg_vars, cd_vars, last_vars>>

\* a callee raised: the error leaves run_bytecode_diff
BdRaise(call, e) ==
    /\ bd_trace' = Append(bd_trace, call)
    /\ bd_result' = DiffRaised(e)
    /\ bd_pc' = "done"

\* lines 114-130: the sources are fetched; a missing one raises CompileError
BuildGithubSolcInput ==
    /\ bd_pc = "called"
    /\ bd_trace' = Append(bd_trace, "fetch_sources")
    /\ bd_missing' = missing_of(bd_github)
    /\ IF missing_of(bd_github) # <<>>
       THEN /\ bd_result' = DiffRaised("CompileError: missing GitHub sources")
            /\ bd_pc' = "done"
       ELSE /\ bd_pc' = "compile"
            /\ UNCHANGED bd_result
    /\ UNCHANGED <<bd_github, bd_compiled, bd_remote, bd_local>>
    /\ BdUnchanged

\* lines 132-141: compile_contract_from_explorer and parse_compiled_contract
CompileFromGithub ==
    /\ bd_pc = "compile"
    /\ \/ /\ BdRaise("compile", "CompileError")
          /\ UNCHANGED bd_compiled
       \/ /\ bd_trace' = Append(bd_trace, "compile")
          /\ bd_compiled' \in Bytecodes
          /\ bd_pc' = "remote"
          /\ UNCHANGED bd_result
    /\ UNCHANGED <<bd_github, bd_missing, bd_remote, bd_local>>
    /\ BdUnchanged

\* lines 143-155: the remote bytecode is read and compared with the compiled one
ReadRemoteBytecode ==
    /\ bd_pc = "remote"
    /\ \/ /\ BdRaise("rpc_read_remote", "NodeError")
          /\ UNCHANGED bd_remote
       \/ /\ bd_trace' = Append(bd_trace, "rpc_read_remote")
          /\ bd_remote' \in Bytecodes
          /\ IF is_fully_matched(bd_compiled, bd_remote')
             THEN /\ bd_result' = DiffReturned(TRUE)
                  /\ bd_pc' = "done"
             ELSE /\ bd_pc' = "calldata"
                  /\ UNCHANGED bd_result
    /\ UNCHANGED <<bd_github, bd_missing, bd_compiled, bd_local>>
    /\ BdUnchanged

\* lines 157-164: get_calldata
GetCalldata ==
    /\ bd_pc = "calldata"
    /\ \/ \E e \in {"CalldataError", "EncoderError"} : BdRaise("get_calldata", e)
       \/ /\ bd_trace' = Append(bd_trace, "get_calldata")
          /\ bd_pc' = "deploy"
          /\ UNCHANGED bd_result
    /\ UNCHANGED <<bd_github, bd_missing, bd_compiled, bd_remote, bd_local>>
    /\ BdUnchanged

\* lines 166-168: deploy_contract
DeployContract ==
    /\ bd_pc = "deploy"
    /\ \/ BdRaise("deploy", "NodeError")
       \/ /\ bd_trace' = Append(bd_trace, "deploy")
          /\ bd_pc' = "local"
          /\ UNCHANGED bd_result
    /\ UNCHANGED <<bd_github, bd_missing, bd_compiled, bd_remote, bd_local>>
    /\ BdUnchanged

\* lines 170-178: the deployed bytecode is read and compared with the remote one
ReadLocalBytecode ==
    /\ bd_pc = "local"
    /\ \/ /\ BdRaise("rpc_read_local", "NodeError")
          /\ UNCHANGED bd_local
       \/ /\ bd_trace' = Append(bd_trace, "rpc_read_local")
          /\ bd_local' \in Bytecodes
          /\ IF is_fully_matched(bd_local', bd_remote)
             THEN /\ bd_result' = DiffReturned(TRUE)
                  /\ bd_pc' = "done"
             ELSE /\ bd_pc' = "deep_match"
                  /\ UNCHANGED bd_result
    /\ UNCHANGED <<bd_github, bd_missing, bd_compiled, bd_remote>>
    /\ BdUnchanged

\* lines 180-184: return deep_match_bytecode(...)
DeepMatch ==
    /\ bd_pc = "deep_match"
    /\ bd_trace' = Append(bd_trace, "deep_match")
    /\ \/ \E verdict \in BOOLEAN : bd_result' = DiffReturned(verdict)
       \/ bd_result' = DiffRaised("BinVerifierError")
    /\ bd_pc' = "done"
    /\ UNCHANGED <<bd_github, bd_missing, bd_compiled, bd_remote, bd_local>>
    /\ BdUnchanged

MaxSources == 2

\* what get_file_from_github returns for a path: the text, an empty text, None
GithubFiles == {"contract C {}", "", None}

InitBytecodeDiff ==
    /\ ParseIdle
    /\ MatchIdle
    /\ HostIdle
    /\ DepIdle
    /\ EncIdle
    /\ BatchIdle
    /\ CfgIdle
    /\ CdIdle
    /\ LastIdle
    /\ bd_github \in UNION {[1..n -> GithubFiles] : n \in 0..MaxSources}
    /\ bd_missing = <<>>
    /\ bd_compiled = None
    /\ bd_remote = None
    /\ bd_local = None
    /\ bd_result = NoDiffResult
    /\ bd_pc = "called"
    /\ bd_trace = <<>>

NextBytecodeDiff ==
    \/ BuildGithubSolcInput
    \/ CompileFromGithub
    \/ ReadRemoteBytecode
    \/ GetCalldata
    \/ DeployContract
    \/ ReadLocalBytecode
    \/ DeepMatch

SpecBytecodeDiff == InitBytecodeDiff /\ [][NextBytecodeDiff]_vars

\* the calls of a run that goes through every step
FullOrder ==
    <<"fetch_sources", "compile", "rpc_read_remote", "get_calldata", "deploy",
      "rpc_read_local", "deep_match">>

Called(call) == \E k \in 1..Len(bd_trace) : bd_trace[k] = call

\* the call was made and did not raise
Completed(call) ==
    \E k \in 1..Len(bd_trace) :
        /\ bd_trace[k] = call
        /\ k < Len(bd_trace) \/ bd_pc # "done" \/ bd_result.kind = "return"

SomeSourceMissing == \E k \in 1..Len(bd_github) : bd_github[k] = None

ConfigInHand == main_pc \in {"start", "contracts", "finally"}

\* the policy the config in hand asks for
WantsLog == enable_binary_comparison /\ ~loaded_config.fail_on_bytecode_comparison_error

\* the explorer fetch or the source diff of the contract raised a custom error
CustomErrorBeforeBytecode(event) ==
    event.explorer = "custom_error" \/ event.source = "custom_error"

\* C28: while a config is processed the policy is 'log' exactly when binary
\* comparison is enabled and that config sets fail_on_bytecode_comparison_error
\* to false, whatever the configs before it chose; under 'raise' a custom error
\* from the explorer fetch or the source diff of a contract is the last thing
\* the loop does for that config, under 'log' the loop goes on
C28_PolicyIsPerConfig ==
    /\ Len(policies) = config_index
    /\ ConfigInHand =>
           /\ raise_exception = ~WantsLog
           /\ policies[config_index] = ~WantsLog
    /\ (ConfigInHand /\ raise_exception) =>
           /\ \A k \in 1..(Len(events) - 1) : ~CustomErrorBeforeBytecode(events[k])
           /\ (events # <<>> /\ CustomErrorBeforeBytecode(events[Len(events)])) =>
                  main_pc = "finally" /\ exit_cause = "error"
    /\ (ConfigInHand /\ ~raise_exception /\ events # <<>>
            /\ CustomErrorBeforeBytecode(events[Len(events)])) =>
           main_pc = "contracts"

\* the first config ran under 'log'; the second runs under 'raise' and a custom
\* error of its first contract has stopped the loop before its second contract
C28_Witness ==
    /\ config_index = 2
    /\ policies = <<FALSE, TRUE>>
    /\ main_pc = "finally"
    /\ Len(loaded_config.contracts) = 2
    /\ Len(events) = 1
    /\ CustomErrorBeforeBytecode(events[1])

(***************************************************************************)
(* run_source_diff (src/diffyscan/diffyscan.py).  A text is the list of    *)
(* its lines, as str.splitlines returns it; the empty str is <<>>.  What   *)
(* the explorer and GitHub hold for each source file, whether a repository *)
(* is configured for it, and how the formatter ends are inputs.            *)
(***************************************************************************)

\* line 287: the text that stands for a file GitHub does not have
NoFileContent == <<"<!-- No file content -->">>

\* prettier rewrites a line: trailing blanks go
prettier_line(line) == IF line = "a " THEN "a" ELSE line

\* prettify_solidity when the formatter succeeds
prettify_solidity(text) == [k \in 1..Len(text) |-> prettier_line(text[k])]

RECURSIVE lcs_length(_, _)
\* the number of lines difflib keeps as context between two short texts
lcs_length(a, b) ==
    IF a = <<>> \/ b = <<>> THEN 0
    ELSE IF a[Len(a)] = b[Len(b)]
    THEN 1 + lcs_length(SubSeq(a, 1, Len(a) - 1), SubSeq(b, 1, Len(b) - 1))
    ELSE Max(lcs_length(SubSeq(a, 1, Len(a) - 1), b),
             lcs_length(a, SubSeq(b, 1, Len(b) - 1)))

\* lines 308-309, len(list(difflib.unified_diff(a, b))) for texts of one hunk:
\* nothing when they are equal, otherwise the two file headers, the hunk header
\* and one line per kept, removed or added line
unified_diff_count(a, b) ==
    IF a = b THEN 0 ELSE 3 + Len(a) + Len(b) - lcs_length(a, b)

\* lines 286-288: what is diffed for a file, and whether it counts as found
github_text(file) == IF file.github.some /\ file.github.text # <<>>
                     THEN file.github.text ELSE NoFileContent

file_found_of(file) == file.github.some /\ file.github.text # <<>>

\* lines 311-320: the row of the report (the columns the statistics read)
report_data(file_number, file, pretty) ==
    LET github_lines == IF pretty THEN prettify_solidity(github_text(file))
                        ELSE github_text(file)
        explorer_lines == IF pretty THEN prettify_solidity(file.explorer)
                          ELSE file.explorer
    IN  [file_number |-> file_number,
         file_found |-> file_found_of(file),
         diffs_count |-> unified_diff_count(github_lines, explorer_lines)]

\* line 324
count_files_found(report) ==
    Cardinality({k \in 1..Len(report) : report[k].file_found})

\* line 327
count_identical_files(report) ==
    Cardinality({k \in 1..Len(report) : report[k].diffs_count = 0})

\* line 330
count_files_with_diffs(report) ==
    Cardinality({k \in 1..Len(report) :
                     report[k].file_found /\ report[k].diffs_count > 0})

StatisticsReturned(report, files_count) ==
    [kind |-> "return", files_count |-> files_count,
     files_found |-> count_files_found(report),
     identical_files |-> count_identical_files(report),
     files_with_diffs |-> count_files_with_diffs(report), err |-> ""]

StatisticsRaised(e) ==
    [kind |-> "raise", files_count |-> 0, files_found |-> 0, identical_files |-> 0,
     files_with_diffs |-> 0, err |-> e]

SdUnchanged ==
    UNCHANGED <<parse_vars, match_vars, host_vars, dep_vars, enc_vars, batch_vars,
                history_vars, cfg_vars, cd_vars, bd_vars, gh_vars>>

\* lines 249-320: one pass of the loop over the source files
DiffFile ==
    /\ sd_pc = "loop"
    /\ sd_index < Len(sd_files)
    /\ LET file == sd_files[sd_index + 1]
       IN  IF ~file.repo
           THEN /\ sd_result' = StatisticsRaised("ValueError")
                /\ sd_pc' = "done"
                /\ UNCHANGED <<sd_index, sd_report>>
           ELSE \E formatter_ok \in BOOLEAN :
                IF sd_prettify /\ ~formatter_ok
                THEN /\ sd_result' = StatisticsRaised("RuntimeError")
                     /\ sd_pc' = "done"
                     /\ UNCHANGED <<sd_index, sd_report>>
                ELSE /\ sd_report' = Append(sd_report,
                                            report_data(sd_index + 1, file, sd_prettify))
                     /\ sd_index' = sd_index + 1
                     /\ UNCHANGED <<sd_result, sd_pc>>
    /\ UNCHANGED <<sd_files, sd_prettify>>
    /\ SdUnchanged

\* lines 322-341: the statistics are counted from the report and returned
ReturnStatistics ==
    /\ sd_pc = "loop"
    /\ sd_index = Len(sd_files)
    /\ sd_result' = StatisticsReturned(sd_report, Len(sd_files))
    /\ sd_pc' = "done"
    /\ UNCHANGED <<sd_files, sd_prettify, sd_index, sd_report>>
    /\ SdUnchanged

MaxFiles == 2

\* the texts a source file can have on either side
Texts == {<<>>, <<"a">>, <<"a ">>, <<"a", "b">>}

\* what get_file_from_github returns for a file: a text or None
GithubAnswers == {[some |-> FALSE, text |-> <<>>]} \cup {[some |-> TRUE, text |-> t] : t \in Texts}

SourceFiles == [github : GithubAnswers, explorer : Texts, repo : BOOLEAN]

InitSourceDiff ==
    /\ ParseIdle
    /\ MatchIdle
    /\ HostIdle
    /\ DepIdle
    /\ EncIdle
    /\ BatchIdle
    /\ CfgIdle
    /\ CdIdle
    /\ BdIdle
    /\ GhIdle
    /\ sd_files \in UNION {[1..n -> SourceFiles] : n \in 0..MaxFiles}
    /\ sd_prettify \in BOOLEAN
    /\ sd_index = 0
    /\ sd_report = <<>>
    /\ sd_result = NoStatistics
    /\ sd_pc = "loop"

NextSourceDiff ==
    \/ DiffFile
    \/ ReturnStatistics

SpecSourceDiff == InitSourceDiff /\ [][NextSourceDiff]_vars

\* the source files whose diff against the repository version is non-empty
FilesWithNonEmptyDiff == {k \in 1..Len(sd_report) : sd_report[k].diffs_count > 0}

\* C29: in the returned statistics files_with_diffs is the number of source
\* files whose diff against the repository version is non-empty, and every
\* source file is counted once, as identical or as a file with diffs; a file
\* that was not found in the repository counts as a file with diffs
C29_EveryFileCountedOnce ==
    sd_result.kind = "return" =>
        /\ sd_result.files_with_diffs = Cardinality(FilesWithNonEmptyDiff)
        /\ sd_result.identical_files + sd_result.files_with_diffs
               = sd_result.files_count

(***************************************************************************)
(* get_file_from_github_recursive and _recursive_search                    *)
(* (src/diffyscan/utils/github.py), with use_cache = False.  A path is the *)
(* sequence of its components, the empty str is <<>>.  The repository at   *)
(* the commit is a set of directories, the directories that hold the       *)
(* requested file, and the base64 content field GitHub serves for it.      *)
(***************************************************************************)

\* the directories a repository can have, in the order GitHub lists them
RepoPathList == << <<"a">>, <<"a", "b">>, <<"c">> >>

RepoPaths == {RepoPathList[k] : k \in 1..Len(RepoPathList)}

RepoRoot == <<>>

\* path_to_file: the file that is looked for
path_to_file == <<"F.sol">>

Parent(path) == SubSeq(path, 1, Len(path) - 1)

\* get_github_api_url: the repository path the URL names (None is <<>>)
get_github_api_url(relative_root, file_path) == relative_root \o file_path

\* the entries GitHub lists for a directory: its files, then its directories
Listing(dir) ==
    (IF dir \in gh_file_dirs
     THEN <<[path |-> dir \o path_to_file, type |-> "file"]>> ELSE <<>>)
    \o <<[path |-> dir \o <<"README.md">>, type |-> "file"]>>
    \o [k \in 1..Len(SelectSeq(RepoPathList,
                               LAMBDA p : p \in gh_dirs /\ Parent(p) = dir)) |->
            [path |-> SelectSeq(RepoPathList,
                                LAMBDA p : p \in gh_dirs /\ Parent(p) = dir)[k],
             type |-> "dir"]]

\* fetch(url).json(): a file object, a directory listing, or the Not Found object
ContentsResponse(path) ==
    IF /\ path # <<>>
       /\ SubSeq(path, Len(path), Len(path)) = path_to_file
       /\ Parent(path) \in gh_file_dirs
    THEN [kind |-> "file", content |-> gh_content, entries |-> <<>>]
    ELSE IF path = RepoRoot \/ path \in gh_dirs
    THEN [kind |-> "list", content |-> "", entries |-> Listing(path)]
    ELSE [kind |-> "not_found", content |-> "", entries |-> <<>>]

SomeText(t) == [some |-> TRUE, text |-> t]

\* Python truth of a str-or-None value
Truthy(v) == v.some /\ v.text # ""

\* base64.b64decode(content).decode(); an error is caught and None returned
b64decode_text(content) ==
    CASE content = "QQ==" -> SomeText("A")
      [] content = ""     -> SomeText("")
      [] OTHER            -> NoText

\* _get_direct_file, lines 211-238
get_direct_file(relative_root, file_path) ==
    LET github_data == ContentsResponse(get_github_api_url(relative_root, file_path))
    IN  IF github_data.kind = "file"
        THEN IF github_data.content = "" THEN NoText
             ELSE b64decode_text(github_data.content)
        ELSE NoText

\* a call of _recursive_search that has just been entered
Frame(relative_path) == [relative_path |-> relative_path, directories |-> <<>>,
                         at |-> "enter"]

Top == gh_stack[Len(gh_stack)]

Callers == SubSeq(gh_stack, 1, Len(gh_stack) - 1)

\* the running call returns v to its caller
SearchReturns(v) ==
    /\ gh_stack' = Callers
    /\ gh_ret' = v

GhUnchanged ==
    /\ UNCHANGED <<gh_dirs, gh_file_dirs, gh_content, gh_root>>
    /\ UNCHANGED <<parse_vars, match_vars, host_vars, dep_vars, enc_vars, batch_vars,
                   history_vars, cfg_vars, cd_vars, bd_vars, sd_vars>>

\* get_file_from_github_recursive, lines 150-208: the direct fetch, then the search
GetDirectFile ==
    /\ gh_pc = "called"
    /\ LET direct_file_content == get_direct_file(gh_root, path_to_file)
       IN  IF Truthy(direct_file_content)
           THEN /\ gh_result' = direct_file_content
                /\ gh_pc' = "returned"
                /\ UNCHANGED gh_stack
           ELSE /\ gh_stack' = <<Frame(gh_root)>>
                /\ gh_pc' = "search"
                /\ UNCHANGED gh_result
    /\ UNCHANGED <<gh_checked, gh_ret, gh_listed>>
    /\ GhUnchanged

\* _recursive_search, lines 252-272: the file is asked for, then the listing
SearchEnter ==
    /\ gh_pc = "search"
    /\ gh_stack # <<>>
    /\ Top.at = "enter"
    /\ LET file_data == ContentsResponse(get_github_api_url(Top.relative_path,
                                                            path_to_file))
           github_data == ContentsResponse(get_github_api_url(Top.relative_path, <<>>))
           directories == SelectSeq(github_data.entries, LAMBDA item : item.type = "dir")
       IN  IF file_data.kind = "file"
           THEN /\ SearchReturns(b64decode_text(file_data.content))
                /\ UNCHANGED gh_listed
           ELSE /\ gh_listed' = Append(gh_listed, Top.relative_path)
                /\ IF github_data.kind = "list" /\ github_data.entries # <<>>
                   THEN /\ gh_stack' = Callers \o
                               <<[relative_path |-> Top.relative_path,
                                  directories |->
                                      [k \in 1..Len(directories) |-> directories[k].path],
                                  at |-> "loop"]>>
                        /\ UNCHANGED gh_ret
                   ELSE SearchReturns(NoText)
    /\ UNCHANGED <<gh_checked, gh_result, gh_pc>>
    /\ GhUnchanged

\* lines 274-286: the next directory is skipped or searched
LoopStep ==
    /\ gh_pc = "search"
    /\ gh_stack # <<>>
    /\ Top.at = "loop"
    /\ Top.directories # <<>>
    /\ LET dir_path == Head(Top.directories)
       IN  IF \E k \in 1..Len(gh_checked) : gh_checked[k] = dir_path
           THEN /\ gh_stack' = Callers \o
                       <<[Top EXCEPT !.directories = Tail(Top.directories)]>>
                /\ UNCHANGED gh_checked
           ELSE /\ gh_checked' = Append(gh_checked, dir_path)
                /\ gh_stack' = Callers \o
                       <<[Top EXCEPT !.directories = Tail(Top.directories),
                                     !.at = "wait"],
                         Frame(dir_path)>>
    /\ UNCHANGED <<gh_ret, gh_result, gh_pc, gh_listed>>
    /\ GhUnchanged

\* lines 287-288: the search of a directory came back
LoopResume ==
    /\ gh_pc = "search"
    /\ gh_stack # <<>>
    /\ Top.at = "wait"
    /\ IF Truthy(gh_ret)
       THEN SearchReturns(gh_ret)
       ELSE /\ gh_stack' = Callers \o <<[Top EXCEPT !.at = "loop"]>>
            /\ UNCHANGED gh_ret
    /\ UNCHANGED <<gh_checked, gh_result, gh_pc, gh_listed>>
    /\ GhUnchanged

\* lines 290-296: after the loop, the repository root is searched once
LoopEnd ==
    /\ gh_pc = "search"
    /\ gh_stack # <<>>
    /\ Top.at = "loop"
    /\ Top.directories = <<>>
    /\ IF /\ Top.relative_path # <<>>
          /\ \A k \in 1..Len(gh_checked) : gh_checked[k] # Top.relative_path
       THEN /\ gh_checked' = Append(gh_checked, Top.relative_path)
            /\ gh_stack' = Callers \o <<[Top EXCEPT !.at = "tail"], Frame(RepoRoot)>>
            /\ UNCHANGED gh_ret
       ELSE /\ SearchReturns(NoText)
            /\ UNCHANGED gh_checked
    /\ UNCHANGED <<gh_result, gh_pc, gh_listed>>
    /\ GhUnchanged

\* lines 292-294: what the search of the root returned is returned
TailReturn ==
    /\ gh_pc = "search"
    /\ gh_stack # <<>>
    /\ Top.at = "tail"
    /\ SearchReturns(gh_ret)
    /\ UNCHANGED <<gh_checked, gh_result, gh_pc, gh_listed>>
    /\ GhUnchanged

\* get_file_from_github_recursive, lines 188-208: the search result is returned
ReturnRecursiveContent ==
    /\ gh_pc = "search"
    /\ gh_stack = <<>>
    /\ gh_result' = gh_ret
    /\ gh_pc' = "returned"
    /\ UNCHANGED <<gh_stack, gh_checked, gh_ret, gh_listed>>
    /\ GhUnchanged

\* a set of directories that is a tree: with a directory, its parent
IsTree(dirs) == \A d \in dirs : Parent(d) = RepoRoot \/ Parent(d) \in dirs

\* the content fields GitHub can serve: text, an empty file, bytes that are no text
ContentFields == {"QQ==", "", "/w=="}

InitGithub ==
    /\ ParseIdle
    /\ MatchIdle
    /\ HostIdle
    /\ DepIdle
    /\ EncIdle
    /\ BatchIdle
    /\ CfgIdle
    /\ CdIdle
    /\ BdIdle
    /\ SdIdle
    /\ gh_dirs \in {dirs \in SUBSET RepoPaths : IsTree(dirs)}
    /\ gh_file_dirs \in SUBSET (gh_dirs \cup {RepoRoot})
    /\ gh_content \in ContentFields
    /\ gh_root \in RepoPaths \cup {RepoRoot}
    /\ gh_stack = <<>>
    /\ gh_checked = <<>>
    /\ gh_ret = NoText
    /\ gh_result = NoText
    /\ gh_pc = "called"
    /\ gh_listed = <<>>

NextGithub ==
    \/ GetDirectFile
    \/ SearchEnter
    \/ LoopStep
    \/ LoopResume
    \/ LoopEnd
    \/ TailReturn
    \/ ReturnRecursiveContent

\* the interpreter runs the call to its end
SpecGithub == InitGithub /\ [][NextGithub]_vars /\ WF_vars(NextGithub)

\* no directory listing was requested twice
EachListingOnce ==
    \A j, k \in 1..Len(gh_listed) : gh_listed[j] = gh_listed[k] => j = k

\* the requested file is in the repository, with a text to return
FileExists == gh_file_dirs # {} /\ b64decode_text(gh_content).some

C30_SearchOutcome ==
    /\ EachListingOnce
    /\ gh_pc = "returned" /\ gh_file_dirs = {} => gh_result = NoText
    /\ gh_pc = "returned" /\ FileExists => gh_result = b64decode_text(gh_content)

====
